---- MODULE Spec2Model ----
(***************************************************************************)
(* archivedb: an append-only key/value store made of fixed-size segment    *)
(* files (magic+version header, then entries), an in-memory index from key *)
(* to (segment id, offset) and a database facade with a readers-writer     *)
(* lock.  The model follows the draft whose go.mod is src/go.mod: the      *)
(* facade of src/unnamed/part_007, the segment of src/unnamed/part_006,    *)
(* the entry codec of src/hdr.go and src/entry.go (first draft) and the    *)
(* mapped file of src/internal/mmap/mmap.go.                               *)
(*                                                                         *)
(* Bytes are naturals 0..255.  Files are byte sequences; TLA+ sequences    *)
(* are 1-based, so the byte at Go offset o is data[o + 1].  uint32 values  *)
(* are pairs <<hi, lo>> of 16-bit halves because they can exceed the       *)
(* 32-bit integers of TLC; arithmetic on them wraps at 2^32 as Go's does.  *)
(*                                                                         *)
(* Scaled sizes.  SegmentSize is 1 << 30 in the source, the key-size field *)
(* of the entry header is a uint8 (modulus 256) and MaxKeySize is 65535.   *)
(* The model keeps their order on a small scale: the key-size modulus is   *)
(* below MaxKeySize, MaxKeySize leaves room for a key that holds the bytes *)
(* of an entry, and a header with the longest key is below the capacity of *)
(* a segment.                                                              *)
(***************************************************************************)
EXTENDS Integers, Sequences, FiniteSets, TLC

\* ---------------------------------------------------------------- bounds
SegSizeBound == 40
KeySizeModBound == 3
MaxKeySizeBound == 11
MaxSegments == 3
MaxOps == 2
NGoroutines == 2

\* ------------------------------------------------------------- constants
SegmentSize == SegSizeBound
SegmentHeaderSize == 6
SegmentVersion == 1
SegmentMagic == <<65, 114, 83, 101, 71>>
hdrSize == 10
flagEntryPut == 1
flagEntryDelete == 2
KeySizeMod == KeySizeModBound
MaxKeySize == MaxKeySizeBound
MaxValueSize == SegmentSize - SegmentHeaderSize

\* ------------------------------------------------------------ uint32 pairs
Half == 65536

U32(n) == <<n \div Half, n % Half>>

U32Add(a, b) ==
  LET lo == a[2] + b[2]
      hi == a[1] + b[1] + (lo \div Half)
  IN  <<hi % Half, lo % Half>>

U32Sub(a, b) ==
  LET lo == a[2] - b[2]
      borrow == IF lo < 0 THEN 1 ELSE 0
      hi == a[1] - b[1] - borrow
  IN  <<(hi + Half) % Half, (lo + Half) % Half>>

U32Lt(a, b) == a[1] < b[1] \/ (a[1] = b[1] /\ a[2] < b[2])

U32Le(a, b) == a = b \/ U32Lt(a, b)

\* The value of a pair that is known to be small (hi = 0).
U32Small(a) == a[1] = 0

U32Int(a) == a[2]

\* --------------------------------------------------------------- bit ops
XorBits[a \in Nat, b \in Nat] ==
  IF a = 0 THEN b
  ELSE IF b = 0 THEN a
  ELSE (((a % 2) + (b % 2)) % 2) + 2 * XorBits[a \div 2, b \div 2]

Xor(a, b) == XorBits[a, b]

\* ------------------------------------------------------ CRC-32 Castagnoli
\* crc32.Checksum(value, CastagnoliCrcTable): reflected polynomial
\* 0x82F63B78, initial value and final xor 0xFFFFFFFF.
CrcPolyHi == 33526
CrcPolyLo == 15224

\* One step per bit of the shift register r.
CrcBit(r) ==
  LET sh == <<r[1] \div 2, (r[2] \div 2) + (r[1] % 2) * 32768>>
  IN  IF r[2] % 2 = 1
        THEN <<Xor(sh[1], CrcPolyHi), Xor(sh[2], CrcPolyLo)>>
        ELSE sh

CrcBits[r \in Seq(Nat), n \in Nat] ==
  IF n = 0 THEN r ELSE CrcBits[CrcBit(r), n - 1]

\* The byte table of the polynomial (crc32.MakeTable).
CastagnoliCrcTable == [b \in 0..255 |-> CrcBits[<<0, b>>, 8]]

\* The register after byte b: table[(r ^ b) & 0xFF] ^ (r >> 8).
CrcByte(r, b) ==
  LET t == CastagnoliCrcTable[Xor(r[2] % 256, b)]
  IN  <<Xor(r[1] \div 256, t[1]),
        Xor((r[2] \div 256) + (r[1] % 256) * 256, t[2])>>

CrcUpdate[r \in Seq(Nat), bytes \in Seq(Nat), i \in Nat] ==
  IF i > Len(bytes) THEN r
  ELSE CrcUpdate[CrcByte(r, bytes[i]), bytes, i + 1]

CrcFinal[r \in Seq(Nat)] == <<Xor(r[1], 65535), Xor(r[2], 65535)>>

Crc32c(bytes) == CrcFinal[CrcUpdate[<<65535, 65535>>, bytes, 1]]

\* ------------------------------------------------------------------ inputs
Rep(b, n) == [i \in 1..n |-> b]

\* A key that validateKey accepts and that is longer than the key-size
\* field can say.  Its bytes spell a whole entry: flag Put, key size 1,
\* value size 0, checksum 0 (that of the empty value), key <<1>>.
KLong == <<1, 1, 0, 0, 0, 0, 0, 0, 0, 0, 1>>

\* A key one byte longer than MaxKeySize.
KHuge == Rep(1, MaxKeySize + 1)

Keys == {<<>>, <<1>>, <<2>>, KLong, KHuge}

\* The longest value that fits a fresh segment together with a 1-byte key.
BigFit == SegmentSize - SegmentHeaderSize - hdrSize - 1

\* A value that leaves, with a 1-byte key in a fresh segment, free bytes
\* for less than an entry header.
NearFit == BigFit - (hdrSize \div 2)

Values == {<<>>, <<7>>, Rep(7, NearFit), Rep(7, BigFit), Rep(7, MaxValueSize),
           Rep(7, MaxValueSize + 1)}

\* The values of the goroutines' Put calls: the n-th call puts bytes n.
ValueLens == {1, 20}

ConcValues == {Rep(n, l) : n \in 1..(MaxOps + 1), l \in ValueLens}

\* A bit flipped in a byte of a file; the bits that are flipped are the
\* lowest and the highest of the first and of the last byte of a value.
FlipBit(byte, b) == Xor(byte, 2 ^ b)

FlipAt(data, pos, b) ==
  [i \in 1..Len(data) |-> IF i = pos THEN FlipBit(data[i], b) ELSE data[i]]

FlipBits == {0, 7}

FlippedValues ==
  UNION {{FlipAt(v, j, b) : j \in {1, Len(v)}, b \in FlipBits} : v \in Values}

\* crc32.Checksum(value, CastagnoliCrcTable).  The checksums of the input
\* values are computed once.
KnownChecksums ==
  [v \in Values \cup ConcValues \cup FlippedValues |-> Crc32c(v)]

Checksum(bytes) ==
  IF bytes \in DOMAIN KnownChecksums THEN KnownChecksums[bytes] ELSE Crc32c(bytes)

\* ------------------------------------------------------------ entry header
\* hdr is [hdrSize]byte: flag, keySize, valueSize (4, LE), checksum (4, LE).
LE4(u) == <<u[2] % 256, u[2] \div 256, u[1] % 256, u[1] \div 256>>

FromLE4(b, i) == <<b[i + 2] + 256 * b[i + 3], b[i] + 256 * b[i + 1]>>

isEntryValid(f) == f = flagEntryPut \/ f = flagEntryDelete

getFlag(h) == h[1]

\* The key-size field is as wide as the key-size modulus: what createEntry
\* stores and what a reader takes from any byte found there is below it.
Uint8(n) == n % KeySizeMod

getKeySize(h) == Uint8(h[2])

getValueSize(h) == FromLE4(h, 3)

getChecksum(h) == FromLE4(h, 7)

\* hdr.entrySize: uint32(hdrSize) + uint32(keySize) + valueSize.
entrySize(h) == U32Add(U32(hdrSize + getKeySize(h)), getValueSize(h))

\* createEntry: the key length is converted to uint8, so it is stored
\* modulo the key-size modulus.
createEntry(flag, key, value) ==
  [key |-> key,
   value |-> value,
   hdr |-> <<flag, Uint8(Len(key))>> \o LE4(U32(Len(value)))
             \o LE4(Checksum(value))]

\* entry.verify
verify(e, key) ==
  IF getKeySize(e.hdr) # Uint8(Len(e.key))
       \/ getValueSize(e.hdr) # U32(Len(e.value))
    THEN "ErrLengthMismatch"
  ELSE IF e.key # key THEN "ErrKeyMismatch"
  ELSE IF getChecksum(e.hdr) # Checksum(e.value) THEN "ErrChecksumFailed"
  ELSE "nil"

\* ------------------------------------------------------------- mapped file
\* mmap.File: data is the mapping (shared with the file), c the cursor.
Min(a, b) == IF a < b THEN a ELSE b

\* data[off : off+Len(p)) := p, for 0-based off.
Patch(data, off, p) ==
  [i \in 1..Len(data) |->
     IF i > off /\ i <= off + Len(p) THEN p[i - off] ELSE data[i]]

\* File.Write: copies at the cursor what fits and advances the cursor;
\* at or beyond the end of the mapping it writes nothing, even for empty p.
MmapWrite(data, c, p) ==
  IF U32Le(U32(Len(data)), c)
    THEN [data |-> data, c |-> c, n |-> 0, err |-> "ErrShortWrite"]
  ELSE LET n == Min(Len(p), Len(data) - U32Int(c))
       IN  [data |-> Patch(data, U32Int(c), SubSeq(p, 1, n)),
            c |-> U32Add(c, U32(n)),
            n |-> n,
            err |-> IF Len(p) > n THEN "ErrShortWrite" ELSE "nil"]

\* File.ReadOff with int arguments that were converted from uint32.
ReadOff(data, off, length) ==
  IF ~U32Small(off) \/ ~U32Small(length)
       \/ U32Int(off) + U32Int(length) > Len(data)
    THEN [err |-> "mmap.ErrInvalidOffset", buf |-> <<>>]
  ELSE [err |-> "nil",
        buf |-> SubSeq(data, U32Int(off) + 1, U32Int(off) + U32Int(length))]

\* ----------------------------------------------------------------- segment
\* segmentMeta.WriteTo followed by Truncate(SegmentSize): the new file.
NewSegmentData ==
  [i \in 1..SegmentSize |->
     IF i <= Len(SegmentMagic) THEN SegmentMagic[i]
     ELSE IF i = Len(SegmentMagic) + 1 THEN SegmentVersion
     ELSE 0]

decodeSegmentMeta(b) ==
  IF Len(b) < SegmentHeaderSize THEN [err |-> "ErrInvalidSegment", Version |-> 0]
  ELSE IF SubSeq(b, 1, Len(SegmentMagic)) # SegmentMagic
    THEN [err |-> "ErrInvalidSegment", Version |-> 0]
  ELSE [err |-> "nil", Version |-> b[Len(SegmentMagic) + 1]]

\* The scan loop of segment.Open.  fuel bounds the iterations: a size that
\* wraps at 2^32 back below the mapping length could repeat for ever.
RECURSIVE ScanSize(_, _, _)
ScanSize(data, size, fuel) ==
  IF ~U32Lt(size, U32(Len(data))) THEN [err |-> "nil", size |-> size]
  ELSE IF fuel = 0 THEN [err |-> "hang", size |-> size]
  ELSE LET r == ReadOff(data, size, U32(hdrSize))
       IN  IF r.err # "nil" THEN [err |-> r.err, size |-> size]
           ELSE IF ~isEntryValid(getFlag(r.buf)) THEN [err |-> "nil", size |-> size]
           ELSE ScanSize(data, U32Add(size, entrySize(r.buf)), fuel - 1)

\* segment.Open on the bytes of its file: the error, and the size and the
\* cursor (Seek to size) it leaves.
SegmentOpen(data) ==
  LET b == ReadOff(data, U32(0), U32(SegmentHeaderSize))
      m == decodeSegmentMeta(b.buf)
      sc == ScanSize(data, U32(SegmentHeaderSize), Len(data))
  IN  IF b.err # "nil" THEN [err |-> b.err, size |-> U32(0), c |-> U32(0)]
      ELSE IF m.err # "nil" THEN [err |-> m.err, size |-> U32(0), c |-> U32(0)]
      ELSE IF m.Version # SegmentVersion
        THEN [err |-> "ErrInvalidSegmentVersion", size |-> U32(0), c |-> U32(0)]
      ELSE [err |-> sc.err, size |-> sc.size, c |-> sc.size]

\* segment.CanWrite: s.size + e.Size() <= SegmentSize in uint32.
CanWrite(size, e) == U32Le(U32Add(size, entrySize(e.hdr)), U32(SegmentSize))

\* segment.WriteEntry after the value was written (w3): size grows by the
\* count when it is the value size of the header.
WriteValue(w3, s2, e) ==
  IF w3.err # "nil"
    THEN [err |-> w3.err, data |-> w3.data, size |-> s2, c |-> w3.c]
  ELSE IF U32(w3.n) # getValueSize(e.hdr)
    THEN [err |-> "ErrInvalidEntryHeader", data |-> w3.data, size |-> s2, c |-> w3.c]
  ELSE [err |-> "nil", data |-> w3.data, size |-> U32Add(s2, U32(w3.n)),
        c |-> w3.c]

\* segment.WriteEntry after the key was written (w2): size grows by the
\* count when it is the key size of the header, then the value is written.
WriteKey(w2, s1, e) ==
  IF w2.err # "nil"
    THEN [err |-> w2.err, data |-> w2.data, size |-> s1, c |-> w2.c]
  ELSE IF w2.n # getKeySize(e.hdr)
    THEN [err |-> "ErrInvalidEntryHeader", data |-> w2.data, size |-> s1, c |-> w2.c]
  ELSE WriteValue(MmapWrite(w2.data, w2.c, e.value), U32Add(s1, U32(w2.n)), e)

\* segment.WriteEntry after the header was written (w1): size grows by the
\* count when it is hdrSize, then the key is written.
WriteHdr(w1, size, e) ==
  IF w1.err # "nil"
    THEN [err |-> w1.err, data |-> w1.data, size |-> size, c |-> w1.c]
  ELSE IF w1.n # hdrSize
    THEN [err |-> "ErrInvalidEntryHeader", data |-> w1.data, size |-> size, c |-> w1.c]
  ELSE WriteKey(MmapWrite(w1.data, w1.c, e.key), U32Add(size, U32(w1.n)), e)

\* segment.WriteEntry: three cursor writes; size grows after each write
\* that returned the expected count.
WriteEntry(data, size, c, e) ==
  IF ~CanWrite(size, e)
    THEN [err |-> "ErrSegmentNotWritable", data |-> data, size |-> size, c |-> c]
  ELSE WriteHdr(MmapWrite(data, c, e.hdr), size, e)

NoEntry == [key |-> <<>>, value |-> <<>>, hdr |-> <<>>]

\* segment.ReadEntry once the header h and the key k were read: the value
\* slice v.
ReadValue(h, k, v) ==
  IF v.err # "nil" THEN [err |-> v.err, e |-> NoEntry]
  ELSE [err |-> "nil", e |-> [key |-> k.buf, value |-> v.buf, hdr |-> h.buf]]

\* segment.ReadEntry once the header h was read: the key slice k at start.
ReadKey(data, start, h, k) ==
  IF k.err # "nil" THEN [err |-> k.err, e |-> NoEntry]
  ELSE ReadValue(h, k, ReadOff(data, U32Add(start, U32(getKeySize(h.buf))),
                               getValueSize(h.buf)))

\* segment.ReadEntry after the read of the header h at off.
ReadHdr(data, off, h) ==
  IF h.err # "nil" THEN [err |-> h.err, e |-> NoEntry]
  ELSE IF ~isEntryValid(getFlag(h.buf)) THEN [err |-> "ErrInvalidOffset", e |-> NoEntry]
  ELSE ReadKey(data, U32Add(off, U32(hdrSize)), h,
               ReadOff(data, U32Add(off, U32(hdrSize)), U32(getKeySize(h.buf))))

\* segment.ReadEntry: header, key and value slices at off.
ReadEntry(data, size, off) ==
  IF ~U32Lt(off, size) THEN [err |-> "ErrInvalidOffset", e |-> NoEntry]
  ELSE ReadHdr(data, off, ReadOff(data, off, U32(hdrSize)))

\* The calls of Put: every value with every key that passes validateKey,
\* one value with the keys that do not.
PutInputs ==
  {<<k, v>> \in Keys \X Values : Len(k) \in 1..MaxKeySize \/ v = <<7>>}

\* A nil []byte result: no byte is -1, so it differs from every byte string,
\* the empty one included.
NilBytes == <<-1>>
NoFile == [data |-> <<>>, stable |-> <<>>]
SegIds == 0..(MaxSegments - 1)

\* ------------------------------------------------------------------- state
VARIABLES
  dir,       \* segment id -> NoFile or [data, stable]: the file named %04x
  isOpen,    \* a DB handle exists
  fsync,     \* option.fsync of the handle
  segments,  \* DB.segments: sequence of [id, size, c]
  index,     \* DB.index: key -> [seg, off]
  ret,       \* the last call and what it returned
  lastCall,  \* per key, the outcome of the last Put/Delete call (this handle)
  lastOk,    \* per key, the last Put/Delete that returned nil (this handle)
  everOk,    \* per key, whether a Put/Delete ever returned nil
  prev,      \* how the previous handle ended, and what held at that moment
  hist,      \* kinds of calls made so far, other than Put and Get that
             \* returned nil: "Delete", "Close", "Crash", "Failed"
  nops,      \* number of calls made (bounded by MaxOps)
  pc,        \* per goroutine: "idle", "wlock", "set", "flush", "ret",
             \* "rlock", "get"
  call,      \* per goroutine, the call it is in
  mu,        \* DB.mu: [w |-> holder of the write lock or 0, r |-> readers]
  cret,      \* the last call a goroutine returned from, and what it returned
  invoked,   \* per key, the values of the Put calls invoked so far
  order,     \* per key, the values of the Puts that succeeded, in lock order
  retPos,    \* per key, the largest position in order of a returned Put
  flipped,   \* the bit flip made in a file from outside, or None
  held,      \* the slice a Get returned and its caller still holds, or None
  tmp,       \* segment id -> None or the file named %04x.initializing
  cpc,       \* the createSegment call in progress and its next step, or None
  written,   \* the entries that WriteEntry calls on a segment of its own
             \* (SpecSeg) wrote, in write order; the entry createEntry
             \* made (SpecEntry)
  arg,       \* the arguments of createEntry or the fields of a header
             \* (SpecEntry), the names in the directory (SpecNames), or None
  hidx,      \* the hash index (index.go): its file, mapping, buckets, total
             \* and cursor, or None before openIndex
  ilog,      \* the Insert calls on the hash index that returned nil, and
             \* the number of openIndex calls on its file
  oc,        \* goroutines that call Open on one path and then Close: the
             \* files named 0000 and 0000.initializing and, per goroutine,
             \* its position, the file its descriptor refers to, its error
  fh,        \* a mmap.File handle of its own: [data, isnil, c], or None
  mf         \* a mmap.MapFile handle and its file: [file, pos, fopen,
             \* mapped, isnil, size, err, buf, n], or None

\* The state of the components beside the DB facade and its segments.
mapVars == <<fh, mf>>

extVars == <<hidx, ilog, oc, mapVars>>

seqGhost == <<ret, lastCall, lastOk, everOk, prev, hist>>

concVars == <<pc, call, mu, cret, invoked, order, retPos>>

envVars == <<flipped, held, tmp, cpc, written, arg, extVars>>

vars == <<dir, isOpen, fsync, segments, index, ret, lastCall, lastOk, everOk,
          prev, hist, nops, pc, call, mu, cret, invoked, order, retPos,
          flipped, held, tmp, cpc, written, arg, extVars>>

Goroutines == 1..NGoroutines

None == [kind |-> "none"]

NoRet == [op |-> "none", key |-> <<>>, value |-> NilBytes, err |-> "nil",
          nofit |-> FALSE, nseg0 |-> 0]

Ret(op, key, value, err) ==
  [op |-> op, key |-> key, value |-> value, err |-> err,
   nofit |-> FALSE, nseg0 |-> Len(segments)]

\* ------------------------------------------------------------- DB (facade)
validateKeyNoLimit(key) ==
  IF Len(key) = 0 THEN "ErrEmptyKey" ELSE "nil"

validateKey(key) ==
  IF Len(key) = 0 THEN "ErrEmptyKey"
  ELSE IF Len(key) > MaxKeySize THEN "ErrKeyTooLarge"
  ELSE "nil"

\* DB.createSegment / createSegment(id, path): the file with its header,
\* zero-filled to SegmentSize, and the segment opened on it.
NewSegment(id) ==
  LET o == SegmentOpen(NewSegmentData)
  IN  [id |-> id, size |-> o.size, c |-> o.c]

\* The header that segmentMeta.WriteTo writes: magic and version.
MetaBytes == SegmentMagic \o <<SegmentVersion>>

\* The file createSegment leaves under the final name: f.Sync() ran after
\* the header was written and before f.Truncate(SegmentSize), so what is
\* known to be on stable storage is the header alone.
NewFile == [data |-> NewSegmentData, stable |-> MetaBytes]

\* Whether set() has to create a segment for e.
NeedSegment(segs, e) ==
  Len(segs) = 0 \/ ~CanWrite(segs[Len(segs)].size, e)

IndexInsertPrefix(idx, key, item) ==
  LET ks == {k \in Keys : Len(k) >= Len(key) /\ SubSeq(k, 1, Len(key)) = key}
  IN  [k \in DOMAIN idx \cup ks |-> IF k \in ks THEN item ELSE idx[k]]

\* db.index.Insert(key, item): the tree maps key, and only key, to item.
IndexInsert(idx, key, item) ==
  [k \in DOMAIN idx \cup {key} |-> IF k = key THEN item ELSE idx[k]]

\* DB.set after WriteEntry returned w on the active segment (the last of
\* segs1): the index entry and the flush.
SetDone(d1, segs1, idx, sync, key, e, w) ==
  IF w.err # "nil"
    THEN [err |-> w.err,
          dir |-> [d1 EXCEPT ![segs1[Len(segs1)].id].data = w.data],
          segments |-> [segs1 EXCEPT ![Len(segs1)].size = w.size,
                                     ![Len(segs1)].c = w.c],
          index |-> idx]
  ELSE [err |-> "nil",
        dir |-> [d1 EXCEPT ![segs1[Len(segs1)].id] =
                   [data |-> w.data,
                    stable |-> IF sync THEN w.data ELSE @.stable]],
        segments |-> [segs1 EXCEPT ![Len(segs1)].size = w.size,
                                   ![Len(segs1)].c = w.c],
        index |-> IndexInsert(idx, key,
                    [seg |-> segs1[Len(segs1)].id,
                     off |-> U32Sub(w.size, entrySize(e.hdr))])]

\* DB.set once the active segment (the last of segs1) can take the entry
\* or was just created.
SetWrite(d1, segs1, idx, sync, key, e) ==
  SetDone(d1, segs1, idx, sync, key, e,
          WriteEntry(d1[segs1[Len(segs1)].id].data, segs1[Len(segs1)].size,
                     segs1[Len(segs1)].c, e))

\* The segment id is a uint16 and the file name is the id in hexadecimal.
\* The model scales the modulus of the id to the number of file names it
\* keeps, as it scales the sizes.
IdMod == MaxSegments

\* DB.createSegment: the id after that of the last segment in uint16
\* arithmetic, 0 without one.
NextId(segs) == IF Len(segs) > 0 THEN (segs[Len(segs)].id + 1) % IdMod ELSE 0

\* DB.set with the entry e: a segment is created when there is none or the
\* active one cannot take e.
SetEntry(d, segs, idx, sync, key, e) ==
  IF NeedSegment(segs, e)
    THEN SetWrite([d EXCEPT ![NextId(segs)] = NewFile],
                  Append(segs, NewSegment(NextId(segs))), idx, sync, key, e)
    ELSE SetWrite(d, segs, idx, sync, key, e)

\* DB.set under the exclusive lock: the error it returns and the segment
\* list, files and index it leaves.
DBSet(d, segs, idx, sync, key, value, flag) ==
  SetEntry(d, segs, idx, sync, key, createEntry(flag, key, value))

\* DB.Get after ReadEntry returned r: verify, then the value.
GetEntry(r, key) ==
  IF r.err # "nil" THEN [value |-> NilBytes, err |-> r.err]
  ELSE IF verify(r.e, key) # "nil"
    THEN [value |-> NilBytes, err |-> verify(r.e, key)]
  ELSE [value |-> r.e.value, err |-> "nil"]

\* DB.Get with the index item it: db.segments[it.seg], then ReadEntry.
GetAt(d, segs, it, key) ==
  IF it.seg + 1 > Len(segs) THEN [value |-> NilBytes, err |-> "panic"]
  ELSE GetEntry(ReadEntry(d[segs[it.seg + 1].id].data,
                          segs[it.seg + 1].size, it.off), key)

\* DB.Get under the shared lock.
DBGet(d, segs, idx, key) ==
  IF validateKey(key) # "nil" THEN [value |-> NilBytes, err |-> validateKey(key)]
  ELSE IF key \notin DOMAIN idx THEN [value |-> NilBytes, err |-> "ErrKeyNotFound"]
  ELSE GetAt(d, segs, idx[key], key)

GetNow(key) == DBGet(dir, segments, index, key)

EmptyIndex == [k \in {} |-> None]

NoCalls == [k \in Keys |-> None]

NoPrev == [how |-> "none", fsync |-> FALSE,
           get |-> [k \in Keys |-> [value |-> NilBytes, err |-> "nil"]],
           ok |-> NoCalls]

NoCall == [op |-> "none", key |-> <<>>, value |-> NilBytes, err |-> "nil",
           floor |-> 0]

Init ==
  /\ dir = [i \in SegIds |-> NoFile]
  /\ isOpen = FALSE
  /\ fsync = FALSE
  /\ segments = <<>>
  /\ index = EmptyIndex
  /\ ret = NoRet
  /\ lastCall = NoCalls
  /\ lastOk = NoCalls
  /\ everOk = [k \in Keys |-> FALSE]
  /\ prev = NoPrev
  /\ hist = {}
  /\ nops = 0
  /\ pc = [g \in Goroutines |-> "idle"]
  /\ call = [g \in Goroutines |-> NoCall]
  /\ mu = [w |-> 0, r |-> {}]
  /\ cret = NoCall
  /\ invoked = [k \in Keys |-> {}]
  /\ order = [k \in Keys |-> <<>>]
  /\ retPos = [k \in Keys |-> 0]
  /\ flipped = None
  /\ held = None
  /\ tmp = [i \in SegIds |-> None]
  /\ cpc = None
  /\ written = <<>>
  /\ arg = None
  /\ hidx = None
  /\ fh = None
  /\ mf = None
  /\ ilog = [calls |-> <<>>, opens |-> 0]
  /\ oc = [seg |-> None, tmp |-> None,
           g |-> [g \in Goroutines |->
                    [pc |-> "start", fd |-> "none", err |-> "nil"]]]

\* DB.openSegments: the files whose names parse, in ReadDir (name) order,
\* each opened by segment.Open; the first error ends Open.
RECURSIVE OpenFrom(_, _, _)
OpenFrom(d, i, segs) ==
  IF i >= MaxSegments THEN [err |-> "nil", segments |-> segs]
  ELSE IF d[i] = NoFile THEN OpenFrom(d, i + 1, segs)
  ELSE LET o == SegmentOpen(d[i].data)
       IN  IF o.err # "nil" THEN [err |-> o.err, segments |-> segs]
           ELSE OpenFrom(d, i + 1, Append(segs, [id |-> i, size |-> o.size, c |-> o.c]))

\* Open(path, FsyncOption(f)): opens the segments, creates 0000 if there
\* is none; the index of the new handle is empty (nothing replays the
\* segments into it).
OpenWith(f, o) ==
  /\ isOpen' = (o.err = "nil")
  /\ fsync' = f
  /\ segments' = IF o.err # "nil" THEN <<>>
                 ELSE IF Len(o.segments) = 0 THEN <<NewSegment(0)>>
                 ELSE o.segments
  /\ dir' = IF o.err = "nil" /\ Len(o.segments) = 0
              THEN [dir EXCEPT ![0] = NewFile]
              ELSE dir
  /\ ret' = [NoRet EXCEPT !.op = "Open", !.err = o.err]

Open(f) ==
  /\ ~isOpen
  /\ OpenWith(f, OpenFrom(dir, 0, <<>>))
  /\ index' = EmptyIndex
  /\ UNCHANGED <<lastCall, lastOk, everOk, prev, hist, nops>>
  /\ UNCHANGED concVars
  /\ UNCHANGED envVars

\* DB.Put: validation before the lock, then set with flagEntryPut.
PutResult(key, value) ==
  IF validateKey(key) # "nil"
    THEN [err |-> validateKey(key), dir |-> dir, segments |-> segments, index |-> index]
  ELSE IF Len(value) > MaxValueSize
    THEN [err |-> "ErrValueTooLarge", dir |-> dir, segments |-> segments, index |-> index]
  ELSE DBSet(dir, segments, index, fsync, key, value, flagEntryPut)

\* DB.Delete: validation, then set with flagEntryDelete and a nil value.
DeleteResult(key) ==
  IF validateKey(key) # "nil"
    THEN [err |-> validateKey(key), dir |-> dir, segments |-> segments, index |-> index]
  ELSE DBSet(dir, segments, index, fsync, key, <<>>, flagEntryDelete)

\* The model creates at most MaxSegments segments.
Room(key, value, flag) ==
  \/ validateKey(key) # "nil"
  \/ Len(value) > MaxValueSize
  \/ Len(segments) < MaxSegments
  \/ ~NeedSegment(segments, createEntry(flag, key, value))

\* The entry of key and value, 10 + len(key) + len(value) bytes, exceeds
\* the free space of the active segment.
NoFit(key, value) ==
  /\ Len(segments) > 0
  /\ U32Lt(U32(SegmentSize),
           U32Add(segments[Len(segments)].size,
                  U32(hdrSize + Len(key) + Len(value))))

MutateDB(op, key, value, flag, r) ==
  /\ dir' = r.dir
  /\ segments' = r.segments
  /\ index' = r.index
  /\ ret' = [op |-> op, key |-> key, value |-> value, err |-> r.err,
             nofit |-> NoFit(key, value),
             nseg0 |-> Len(segments)]
  /\ lastCall' = [lastCall EXCEPT ![key] =
                    IF r.err # "nil" THEN [kind |-> "failed"]
                    ELSE IF op = "Put" THEN [kind |-> "put", value |-> value]
                    ELSE [kind |-> "del"]]
  /\ lastOk' = IF r.err # "nil" THEN lastOk
               ELSE [lastOk EXCEPT ![key] =
                       IF op = "Put" THEN [kind |-> "put", value |-> value]
                       ELSE [kind |-> "del"]]
  /\ everOk' = [everOk EXCEPT ![key] = @ \/ r.err = "nil"]
  /\ nops' = nops + 1
  /\ UNCHANGED <<isOpen, fsync, prev>>
  /\ UNCHANGED concVars

Mutate(op, key, value, flag, r) ==
  /\ MutateDB(op, key, value, flag, r)
  /\ UNCHANGED envVars

Failed(r) == IF r.err # "nil" THEN {"Failed"} ELSE {}

Put(key, value) ==
  /\ isOpen
  /\ nops < MaxOps
  /\ Room(key, value, flagEntryPut)
  /\ Mutate("Put", key, value, flagEntryPut, PutResult(key, value))
  /\ hist' = hist \cup Failed(PutResult(key, value))

Delete(key) ==
  /\ isOpen
  /\ nops < MaxOps
  /\ Room(key, <<>>, flagEntryDelete)
  /\ Mutate("Delete", key, <<>>, flagEntryDelete, DeleteResult(key))
  /\ hist' = hist \cup {"Delete"} \cup Failed(DeleteResult(key))

\* DB.Get returning g to its caller.
GetDB(key, g) ==
  /\ isOpen
  /\ ret' = Ret("Get", key, g.value, g.err)
  /\ UNCHANGED <<dir, isOpen, fsync, segments, index, lastCall, lastOk,
                 everOk, prev, hist, nops>>
  /\ UNCHANGED concVars

Get(key) ==
  /\ GetDB(key, GetNow(key))
  /\ UNCHANGED envVars

Snapshot(how) ==
  [how |-> how, fsync |-> fsync,
   get |-> [k \in Keys |-> GetNow(k)],
   ok |-> lastOk]

\* DB.Close: unmaps every segment; the handle is gone.
CloseDB ==
  /\ isOpen
  /\ prev' = Snapshot("close")
  /\ isOpen' = FALSE
  /\ segments' = <<>>
  /\ index' = EmptyIndex
  /\ ret' = [NoRet EXCEPT !.op = "Close"]
  /\ lastCall' = NoCalls
  /\ lastOk' = NoCalls
  /\ hist' = hist \cup {"Close"}
  /\ UNCHANGED <<dir, fsync, everOk>>
  /\ UNCHANGED concVars

Close ==
  /\ nops < MaxOps
  /\ nops' = nops + 1
  /\ CloseDB
  /\ UNCHANGED envVars

\* The process stops without Close.  Every file keeps either the bytes of
\* its mapping or the bytes of its last sync.
Crash(keep) ==
  /\ isOpen
  /\ nops < MaxOps
  /\ prev' = Snapshot("crash")
  /\ dir' = [i \in SegIds |->
               IF dir[i] = NoFile \/ i \in keep THEN dir[i]
               ELSE [data |-> dir[i].stable, stable |-> dir[i].stable]]
  /\ isOpen' = FALSE
  /\ segments' = <<>>
  /\ index' = EmptyIndex
  /\ ret' = [NoRet EXCEPT !.op = "Crash"]
  /\ lastCall' = NoCalls
  /\ lastOk' = NoCalls
  /\ hist' = hist \cup {"Crash"}
  /\ nops' = nops + 1
  /\ UNCHANGED <<fsync, everOk>>
  /\ UNCHANGED concVars
  /\ UNCHANGED envVars

Next ==
  \/ \E f \in BOOLEAN : Open(f)
  \/ \E in \in PutInputs : Put(in[1], in[2])
  \/ \E k \in Keys : Delete(k)
  \/ \E k \in Keys : Get(k)
  \/ Close
  \/ \E keep \in SUBSET {i \in SegIds : dir[i] # NoFile} : Crash(keep)

Spec == Init /\ [][Next]_vars

\* --------------------------------------------------- failing flush (msync)
\* Spec takes every system call of set to succeed.  SpecFault adds the calls
\* of Put and Delete whose segment.Flush() returns an error: set returns it
\* after WriteEntry and index.Insert have been done.
SyncFailed(r) == [r EXCEPT !.err = "ErrSync"]

PutSyncFails(key, value) ==
  /\ isOpen
  /\ nops < MaxOps
  /\ fsync
  /\ Room(key, value, flagEntryPut)
  /\ PutResult(key, value).err = "nil"
  /\ Mutate("Put", key, value, flagEntryPut,
            SyncFailed(DBSet(dir, segments, index, FALSE, key, value,
                             flagEntryPut)))
  /\ hist' = hist \cup {"Failed"}

DeleteSyncFails(key) ==
  /\ isOpen
  /\ nops < MaxOps
  /\ fsync
  /\ Room(key, <<>>, flagEntryDelete)
  /\ DeleteResult(key).err = "nil"
  /\ Mutate("Delete", key, <<>>, flagEntryDelete,
            SyncFailed(DBSet(dir, segments, index, FALSE, key, <<>>,
                             flagEntryDelete)))
  /\ hist' = hist \cup {"Delete", "Failed"}

NextFault ==
  \/ \E f \in BOOLEAN : Open(f)
  \/ \E in \in PutInputs : Put(in[1], in[2])
  \/ \E in \in PutInputs : PutSyncFails(in[1], in[2])
  \/ \E k \in Keys : Delete(k)
  \/ \E k \in Keys : DeleteSyncFails(k)
  \/ \E k \in Keys : Get(k)
  \/ Close

SpecFault == Init /\ [][NextFault]_vars

\* ------------------------------------------- files changed from outside
\* The mapping is shared with the file, so a bit flipped in the file is
\* flipped in the mapping of an open handle as well.
FlipFile(f, pos, b) ==
  [data |-> FlipAt(f.data, pos, b), stable |-> FlipAt(f.stable, pos, b)]

\* One bit of byte j of the value of the entry that the last call, a Put
\* that returned nil, appended: WriteEntry left the cursor c behind the
\* value.  flipped keeps what Get returned for every key at that moment.
CorruptAt(seg, pos, b) ==
  /\ dir' = [dir EXCEPT ![seg.id] = FlipFile(@, pos, b)]
  /\ flipped' = [kind |-> "value", key |-> ret.key, n |-> nops,
                 closed |-> FALSE, get |-> [k \in Keys |-> GetNow(k)]]
  /\ ret' = [ret EXCEPT !.op = "Corrupt"]
  /\ UNCHANGED <<isOpen, fsync, segments, index, lastCall, lastOk, everOk,
                 prev, hist, nops, held, tmp, cpc, written, arg, extVars>>
  /\ UNCHANGED concVars

Corrupt(j, b) ==
  /\ isOpen
  /\ flipped = None
  /\ ret.op = "Put" /\ ret.err = "nil"
  /\ j \in 1..Len(ret.value)
  /\ CorruptAt(segments[Len(segments)],
               U32Int(segments[Len(segments)].c) - Len(ret.value) + j, b)

\* The start of the value slice of the entry at the index record it, as
\* ReadEntry computes it: off + hdrSize + key size.
ValueStart(d, it) ==
  U32Int(it.off) + hdrSize
    + getKeySize(ReadOff(d[it.seg].data, it.off, U32(hdrSize)).buf)

\* DB.Get whose caller keeps the first non-empty slice it got: entry.value
\* is the slice File.ReadOff made of the mapping (seg, pos), not a copy.
GetHeld(key) ==
  /\ GetDB(key, GetNow(key))
  /\ held' = IF held = None /\ GetNow(key).err = "nil"
                  /\ Len(GetNow(key).value) > 0
               THEN [key |-> key, value |-> GetNow(key).value,
                     seg |-> index[key].seg,
                     pos |-> ValueStart(dir, index[key]),
                     live |-> TRUE, now |-> GetNow(key).value]
               ELSE held
  /\ UNCHANGED <<flipped, tmp, cpc, written, arg, extVars>>

\* What reading a slice of a mapping gives once File.Close unmapped it:
\* the old bytes or a fault.
Unmapped == {"same", "fault"}

Fault == <<-2>>

\* DB.Close with a slice of a mapping still held by a caller of Get.  It is
\* not counted in nops; a run closes one handle.
CloseHeld(out) ==
  /\ "Close" \notin hist
  /\ CloseDB
  /\ held' = IF held = None \/ ~held.live THEN held
             ELSE [held EXCEPT !.live = FALSE,
                               !.now = IF out = "same" THEN held.value
                                       ELSE Fault]
  /\ flipped' = IF flipped.kind = "value"
                  THEN [flipped EXCEPT !.closed = TRUE]
                  ELSE flipped
  /\ UNCHANGED <<nops, tmp, cpc, written, arg, extVars>>

\* One bit of the header (magic, version) of the segment file i, flipped
\* while no handle is open.
CorruptHeader(i, pos, b) ==
  /\ ~isOpen
  /\ flipped = None
  /\ dir[i] # NoFile
  /\ dir' = [dir EXCEPT ![i] = FlipFile(@, pos, b)]
  /\ flipped' = [kind |-> "header", seg |-> i]
  /\ ret' = [ret EXCEPT !.op = "Corrupt"]
  /\ UNCHANGED <<isOpen, fsync, segments, index, lastCall, lastOk, everOk,
                 prev, hist, nops, held, tmp, cpc, written, arg, extVars>>
  /\ UNCHANGED concVars

NextEnv ==
  \/ \E f \in BOOLEAN : Open(f)
  \/ \E in \in PutInputs : Put(in[1], in[2])
  \/ \E k \in Keys : Delete(k)
  \/ \E k \in Keys : GetHeld(k)
  \/ \E out \in Unmapped : CloseHeld(out)
  \/ \E j \in {1, Len(ret.value)}, b \in FlipBits : Corrupt(j, b)
  \/ \E i \in SegIds, pos \in 1..SegmentHeaderSize, b \in FlipBits :
       CorruptHeader(i, pos, b)

SpecEnv == Init /\ [][NextEnv]_vars

\* ------------------------------------------- createSegment, step by step
\* SpecCreate runs createSegment(id, path) one system call at a time, for
\* the first segment of Open and for the segment that a Put adds, and lets
\* the process stop between any two steps.
Zeros(n) == [i \in 1..n |-> 0]

\* f.Truncate(n) on a file of bytes data.
TruncateTo(data, n) ==
  IF Len(data) >= n THEN SubSeq(data, 1, n) ELSE data \o Zeros(n - Len(data))

CreateCall(id, op, key, value) ==
  [step |-> "create", id |-> id, op |-> op, key |-> key, value |-> value]

\* Open on a directory without segment files, up to createSegment(0, ...).
OpenStart(f) ==
  /\ ~isOpen
  /\ cpc = None
  /\ \A i \in SegIds : dir[i] = NoFile
  /\ cpc' = CreateCall(0, "Open", <<>>, <<>>)
  /\ fsync' = f
  /\ UNCHANGED <<dir, isOpen, segments, index, nops, flipped, held, tmp,
                 written, arg, extVars>>
  /\ UNCHANGED seqGhost
  /\ UNCHANGED concVars

\* Open on a directory with segment files: no segment is created.
OpenExisting(f) ==
  /\ cpc = None
  /\ \E i \in SegIds : dir[i] # NoFile
  /\ Open(f)

\* Put of a valid key and value for which set has to create a segment, up
\* to db.createSegment().
PutStart(key, value) ==
  /\ isOpen
  /\ cpc = None
  /\ nops < MaxOps
  /\ Len(segments) < MaxSegments
  /\ validateKey(key) = "nil"
  /\ Len(value) <= MaxValueSize
  /\ NeedSegment(segments, createEntry(flagEntryPut, key, value))
  /\ cpc' = CreateCall(NextId(segments), "Put", key, value)
  /\ UNCHANGED <<dir, isOpen, fsync, segments, index, nops, flipped, held,
                 tmp, written, arg, extVars>>
  /\ UNCHANGED seqGhost
  /\ UNCHANGED concVars

\* A step of createSegment that changes the file under the temporary name.
TmpStep(from, to, file) ==
  /\ cpc.step = from
  /\ tmp' = [tmp EXCEPT ![cpc.id] = file]
  /\ cpc' = [cpc EXCEPT !.step = to]
  /\ UNCHANGED <<dir, isOpen, fsync, segments, index, nops, flipped, held,
                 written, arg, extVars>>
  /\ UNCHANGED seqGhost
  /\ UNCHANGED concVars

\* os.Create(path + ".initializing")
CreateFile ==
  /\ cpc # None
  /\ TmpStep("create", "write", [data |-> <<>>, stable |-> <<>>])

\* hdr.WriteTo(f)
WriteMeta ==
  /\ cpc # None
  /\ TmpStep("write", "sync",
             [data |-> MetaBytes, stable |-> tmp[cpc.id].stable])

\* f.Sync()
SyncMeta ==
  /\ cpc # None
  /\ TmpStep("sync", "truncate",
             [data |-> tmp[cpc.id].data, stable |-> tmp[cpc.id].data])

\* f.Truncate(int64(SegmentSize))
TruncateFile ==
  /\ cpc # None
  /\ TmpStep("truncate", "rename",
             [data |-> TruncateTo(tmp[cpc.id].data, SegmentSize),
              stable |-> tmp[cpc.id].stable])

\* f.Close() and os.Rename(f.Name(), path)
RenameFile ==
  /\ cpc # None
  /\ cpc.step = "rename"
  /\ dir' = [dir EXCEPT ![cpc.id] = tmp[cpc.id]]
  /\ tmp' = [tmp EXCEPT ![cpc.id] = None]
  /\ cpc' = [cpc EXCEPT !.step = "open"]
  /\ UNCHANGED <<isOpen, fsync, segments, index, nops, flipped, held,
                 written, arg, extVars>>
  /\ UNCHANGED seqGhost
  /\ UNCHANGED concVars

\* segment.Open() of the new file ends createSegment inside Open: the
\* handle has this one segment.
OpenDone(o) ==
  /\ cpc.op = "Open"
  /\ isOpen' = (o.err = "nil")
  /\ segments' = IF o.err = "nil"
                   THEN <<[id |-> cpc.id, size |-> o.size, c |-> o.c]>>
                   ELSE <<>>
  /\ index' = EmptyIndex
  /\ ret' = [NoRet EXCEPT !.op = "Open", !.err = o.err]
  /\ UNCHANGED <<dir, fsync, lastCall, lastOk, everOk, prev, hist, nops>>
  /\ UNCHANGED concVars

\* segment.Open() of the new file ends createSegment inside set: the entry
\* goes to the new segment.
PutDone(o) ==
  /\ cpc.op = "Put"
  /\ o.err = "nil"
  /\ MutateDB("Put", cpc.key, cpc.value, flagEntryPut,
              SetWrite(dir,
                       Append(segments,
                              [id |-> cpc.id, size |-> o.size, c |-> o.c]),
                       index, fsync, cpc.key,
                       createEntry(flagEntryPut, cpc.key, cpc.value)))
  /\ UNCHANGED hist

CreateDone ==
  /\ cpc # None
  /\ cpc.step = "open"
  /\ \/ OpenDone(SegmentOpen(dir[cpc.id].data))
     \/ PutDone(SegmentOpen(dir[cpc.id].data))
  /\ cpc' = None
  /\ UNCHANGED <<flipped, held, tmp, written, arg, extVars>>

\* What a file is after the process stopped: its bytes, or those of its
\* last sync.
AfterStop(f, kept) ==
  IF f \in {NoFile, None} \/ kept THEN f ELSE [data |-> f.stable, stable |-> f.stable]

\* The process stops inside createSegment.
CrashCreate(keep) ==
  /\ cpc # None
  /\ cpc' = None
  /\ dir' = [i \in SegIds |-> AfterStop(dir[i], i \in keep)]
  /\ tmp' = [i \in SegIds |-> AfterStop(tmp[i], i \in keep)]
  /\ isOpen' = FALSE
  /\ segments' = <<>>
  /\ index' = EmptyIndex
  /\ ret' = [NoRet EXCEPT !.op = "Crash"]
  /\ lastCall' = NoCalls
  /\ lastOk' = NoCalls
  /\ hist' = hist \cup {"Crash"}
  /\ UNCHANGED <<fsync, everOk, prev, nops, flipped, held, written, arg, extVars>>
  /\ UNCHANGED concVars

NextCreate ==
  \/ \E f \in BOOLEAN : OpenStart(f)
  \/ \E f \in BOOLEAN : OpenExisting(f)
  \/ \E in \in PutInputs : PutStart(in[1], in[2])
  \/ CreateFile
  \/ WriteMeta
  \/ SyncMeta
  \/ TruncateFile
  \/ RenameFile
  \/ CreateDone
  \/ \E keep \in SUBSET SegIds : CrashCreate(keep)
  \/ \E k \in Keys : cpc = None /\ Get(k)

SpecCreate == Init /\ [][NextCreate]_vars

\* ------------------------------------------------------ many rollovers
\* SpecRoll lets Put create one segment more than there are file names, so
\* that the id of the new segment wraps: createSegment(0, "0000") renames
\* its new file to the name 0000 of the first segment.  os.Rename replaces
\* the file (POSIX) or fails because the file is open and mapped (Windows);
\* both outcomes are taken.  The run ends at a wrap.
Wrapped ==
  \/ \E i, j \in 1..Len(segments) : i < j /\ segments[i].id = segments[j].id
  \/ \E i \in SegIds : tmp[i] # None

\* The Put calls that roll over: a value that fills a segment and the
\* largest value.
RollInputs == {<<1>>, <<2>>} \X {Rep(7, BigFit), Rep(7, MaxValueSize)}

\* A Put of a valid key and value for which set creates a segment.
RollPut(key, value) ==
  /\ isOpen
  /\ ~Wrapped
  /\ Len(segments) <= MaxSegments
  /\ validateKey(key) = "nil"
  /\ Len(value) <= MaxValueSize
  /\ NeedSegment(segments, createEntry(flagEntryPut, key, value))
  /\ MutateDB("Put", key, value, flagEntryPut, PutResult(key, value))
  /\ hist' = hist \cup Failed(PutResult(key, value))
  /\ UNCHANGED envVars

\* The same Put when os.Rename fails in createSegment: set returns the
\* error, the file stays under the temporary name.
RollPutRefused(key, value) ==
  /\ isOpen
  /\ ~Wrapped
  /\ Len(segments) <= MaxSegments
  /\ validateKey(key) = "nil"
  /\ Len(value) <= MaxValueSize
  /\ NeedSegment(segments, createEntry(flagEntryPut, key, value))
  /\ dir[NextId(segments)] # NoFile
  /\ tmp' = [tmp EXCEPT ![NextId(segments)] = NewFile]
  /\ MutateDB("Put", key, value, flagEntryPut,
              [err |-> "ErrRename", dir |-> dir, segments |-> segments,
               index |-> index])
  /\ hist' = hist \cup {"Failed"}
  /\ UNCHANGED <<flipped, held, cpc, written, arg, extVars>>

NextRoll ==
  \/ \E f \in BOOLEAN : Open(f)
  \/ \E in \in PutInputs : ~Wrapped /\ Put(in[1], in[2])
  \/ \E in \in RollInputs : RollPut(in[1], in[2])
  \/ \E in \in RollInputs : RollPutRefused(in[1], in[2])
  \/ \E k \in Keys : ~Wrapped /\ Get(k)
  \/ ~Wrapped /\ Close

SpecRoll == Init /\ [][NextRoll]_vars

\* ------------------------------------------------------- a segment alone
\* SpecSeg drives one segment as TestSegment does: createSegment, WriteEntry
\* of entries made by createEntry, Close, Open of a new segment object on
\* the same file, ForEachEntry.  The segment object is segments[1], isOpen
\* says that its mapping is open, dir[0] is its file.

\* File.ReadAt(p, off) with len(p) = n: copy(p, f.data[off:]).
ReadAt(data, n, off) ==
  IF ~U32Small(off) \/ U32Int(off) > Len(data)
    THEN [err |-> "mmap.ErrInvalidOffset", buf |-> <<>>]
  ELSE IF ~U32Small(n) \/ U32Int(n) > Len(data) - U32Int(off)
    THEN [err |-> "io.EOF", buf |-> SubSeq(data, U32Int(off) + 1, Len(data))]
  ELSE [err |-> "nil",
        buf |-> SubSeq(data, U32Int(off) + 1, U32Int(off) + U32Int(n))]

\* What the callback of ForEachEntry is given: flag, key and value.
Seen(h, k, v) == [flag |-> getFlag(h), key |-> k, value |-> v]

RECURSIVE ForEachFrom(_, _, _, _)
\* ForEachEntry at i once header h, key k and value v were read: the
\* callback (it returns nil), then i += h.entrySize().
ForEachValue(data, size, i, h, k, v, acc) ==
  IF v.err # "nil" THEN [err |-> v.err, seen |-> acc]
  ELSE ForEachFrom(data, size, U32Add(i, entrySize(h.buf)),
                   Append(acc, Seen(h.buf, k.buf, v.buf)))

\* ForEachEntry at i once header h and key k were read.
ForEachKey(data, size, i, h, k, acc) ==
  IF k.err # "nil" THEN [err |-> k.err, seen |-> acc]
  ELSE ForEachValue(data, size, i, h, k,
                    ReadAt(data, getValueSize(h.buf),
                           U32Add(i, U32(hdrSize + getKeySize(h.buf)))),
                    acc)

\* ForEachEntry at i once the header h was read: an invalid flag ends the
\* walk without an error.
ForEachHdr(data, size, i, h, acc) ==
  IF h.err # "nil" THEN [err |-> h.err, seen |-> acc]
  ELSE IF ~isEntryValid(getFlag(h.buf)) THEN [err |-> "nil", seen |-> acc]
  ELSE ForEachKey(data, size, i, h,
                  ReadAt(data, U32(getKeySize(h.buf)), U32Add(i, U32(hdrSize))),
                  acc)

ForEachFrom(data, size, i, acc) ==
  IF ~U32Lt(i, size) THEN [err |-> "nil", seen |-> acc]
  ELSE ForEachHdr(data, size, i, ReadAt(data, U32(hdrSize), i), acc)

\* segment.ForEachEntry with a callback that records what it is given.
ForEachEntry(data, size) ==
  ForEachFrom(data, size, U32(SegmentHeaderSize), <<>>)

\* ForEachEntry on a segment whose mapping was closed: the first ReadAt
\* fails, if the loop is entered at all.
ForEachClosed(size) ==
  IF U32Lt(U32(SegmentHeaderSize), size)
    THEN [err |-> "mmap.ErrClosed", seen |-> <<>>]
    ELSE [err |-> "nil", seen |-> <<>>]

\* The entries written to the segment: createEntry takes any flag, key and
\* value.
SegKeys == {<<>>, <<1>>, KLong}

SegInputs == {flagEntryPut, flagEntryDelete} \X SegKeys \X Values

\* createSegment(0, path)
SegCreate ==
  /\ segments = <<>>
  /\ dir[0] = NoFile
  /\ dir' = [dir EXCEPT ![0] = NewFile]
  /\ segments' = <<NewSegment(0)>>
  /\ isOpen' = TRUE
  /\ written' = <<>>
  /\ ret' = [NoRet EXCEPT !.op = "Create"]
  /\ UNCHANGED <<fsync, index, lastCall, lastOk, everOk, prev, hist, nops,
                 flipped, held, tmp, cpc, arg, extVars>>
  /\ UNCHANGED concVars

\* segment.WriteEntry(e) returning w.
SegWriteWith(e, w) ==
  /\ dir' = [dir EXCEPT ![0].data = w.data]
  /\ segments' = <<[id |-> 0, size |-> w.size, c |-> w.c]>>
  /\ written' = IF w.err = "nil" THEN Append(written, e) ELSE written
  /\ ret' = [op |-> "Write", key |-> e.key, value |-> e.value, err |-> w.err,
             nofit |-> NoFit(e.key, e.value), nseg0 |-> 1]
  /\ hist' = hist \cup Failed(w)
  /\ nops' = nops + 1
  /\ UNCHANGED <<isOpen, fsync, index, lastCall, lastOk, everOk, prev,
                 flipped, held, tmp, cpc, arg, extVars>>
  /\ UNCHANGED concVars

SegWrite(flag, key, value) ==
  /\ isOpen
  /\ Len(segments) = 1
  /\ nops < MaxOps
  /\ SegWriteWith(createEntry(flag, key, value),
                  WriteEntry(dir[0].data, segments[1].size, segments[1].c,
                             createEntry(flag, key, value)))

\* segment.Close(); prev keeps the size at that moment.
SegClose ==
  /\ isOpen
  /\ Len(segments) = 1
  /\ isOpen' = FALSE
  /\ prev' = [how |-> "segclose", size |-> segments[1].size]
  /\ ret' = [NoRet EXCEPT !.op = "Close"]
  /\ UNCHANGED <<dir, fsync, segments, index, lastCall, lastOk, everOk, hist,
                 nops>>
  /\ UNCHANGED concVars
  /\ UNCHANGED envVars

\* newSegment(0, path).Open(): the object keeps the size the scan reached,
\* also when Open fails and closes the mapping again.  prev tells that the
\* segment was closed and opened again.
SegOpenWith(o) ==
  /\ isOpen' = (o.err = "nil")
  /\ segments' = <<[id |-> 0, size |-> o.size, c |-> o.c]>>
  /\ ret' = [NoRet EXCEPT !.op = "Open", !.err = o.err]
  /\ prev' = [how |-> "reopen", size |-> prev.size]
  /\ UNCHANGED <<dir, fsync, index, lastCall, lastOk, everOk, hist, nops>>
  /\ UNCHANGED concVars
  /\ UNCHANGED envVars

SegOpen ==
  /\ ~isOpen
  /\ Len(segments) = 1
  /\ SegOpenWith(SegmentOpen(dir[0].data))

\* segment.ForEachEntry(fn) returning r.
SegForEachWith(r) ==
  /\ ret' = [NoRet EXCEPT !.op = "ForEach", !.value = r.seen, !.err = r.err]
  /\ UNCHANGED <<dir, isOpen, fsync, segments, index, lastCall, lastOk,
                 everOk, prev, hist, nops>>
  /\ UNCHANGED concVars
  /\ UNCHANGED envVars

SegForEach ==
  /\ Len(segments) = 1
  /\ SegForEachWith(IF isOpen
                      THEN ForEachEntry(dir[0].data, segments[1].size)
                      ELSE ForEachClosed(segments[1].size))

NextSeg ==
  \/ SegCreate
  \/ \E in \in SegInputs : SegWrite(in[1], in[2], in[3])
  \/ SegClose
  \/ SegOpen
  \/ SegForEach

SpecSeg == Init /\ [][NextSeg]_vars

\* ------------------------------------------------------- the hash option
\* Open(path, HashFuncOption(h)) stores h in opts.hashFunc.  No operation of
\* the facade reads opts.hashFunc: the index is keyed by the key itself.  So
\* a hash function is a name that is never applied; hist tells that one
\* sending all keys to the same hash was supplied.
HashFuncs == {"DefaultHashFunc", "constant"}

OpenHash(f, h) ==
  /\ ~isOpen
  /\ OpenWith(f, OpenFrom(dir, 0, <<>>))
  /\ index' = EmptyIndex
  /\ hist' = IF h = "constant" THEN hist \cup {"Hash"} ELSE hist
  /\ UNCHANGED <<lastCall, lastOk, everOk, prev, nops>>
  /\ UNCHANGED concVars
  /\ UNCHANGED envVars

NextHash ==
  \/ \E f \in BOOLEAN, h \in HashFuncs : OpenHash(f, h)
  \/ \E in \in PutInputs : Put(in[1], in[2])
  \/ \E k \in Keys : Get(k)
  \/ Close

SpecHash == Init /\ [][NextHash]_vars

\* ------------------------------------------------ entries and headers alone
\* The arguments of createEntry: a flag, a key and a value.
EntryArgs ==
  [kind : {"entry"}, flag : {flagEntryPut, flagEntryDelete}, key : Keys,
   value : Values]

\* The fields of a header (the key size is a uint8, so below the key-size
\* modulus; value size and checksum are 32-bit) and the number of bytes of
\* its encoding that a reader finds in the mapping.
HdrArgs ==
  [kind : {"hdr"}, flag : {0, flagEntryPut, flagEntryDelete, 255},
   keySize : 0..(KeySizeMod - 1),
   valueSize : {U32(0), U32(258), <<4660, 22136>>, <<Half - 1, Half - 1>>},
   checksum : {U32(0), U32(258), <<4660, 22136>>, <<Half - 1, Half - 1>>},
   given : {0, hdrSize - 1, hdrSize}]

InitEntry ==
  /\ dir = [i \in SegIds |-> NoFile]
  /\ isOpen = FALSE
  /\ fsync = FALSE
  /\ segments = <<>>
  /\ index = EmptyIndex
  /\ ret = NoRet
  /\ lastCall = NoCalls
  /\ lastOk = NoCalls
  /\ everOk = [k \in Keys |-> FALSE]
  /\ prev = NoPrev
  /\ hist = {}
  /\ nops = 0
  /\ pc = [g \in Goroutines |-> "idle"]
  /\ call = [g \in Goroutines |-> NoCall]
  /\ mu = [w |-> 0, r |-> {}]
  /\ cret = NoCall
  /\ invoked = [k \in Keys |-> {}]
  /\ order = [k \in Keys |-> <<>>]
  /\ retPos = [k \in Keys |-> 0]
  /\ flipped = None
  /\ held = None
  /\ tmp = [i \in SegIds |-> None]
  /\ cpc = None
  /\ written = <<>>
  /\ arg \in EntryArgs \cup HdrArgs
  /\ hidx = None
  /\ fh = None
  /\ mf = None
  /\ ilog = [calls |-> <<>>, opens |-> 0]
  /\ oc = [seg |-> None, tmp |-> None,
           g |-> [g \in Goroutines |->
                    [pc |-> "start", fd |-> "none", err |-> "nil"]]]

\* h.setFlag(flag).setKeySize(keySize).setValueSize(valueSize)
\* .setChecksum(checksum).encode(): the array itself.
encode(flag, keySize, valueSize, checksum) ==
  <<flag, keySize>> \o LE4(valueSize) \o LE4(checksum)

\* A header taken from the bytes b that a mapping holds from an offset on:
\* ForEachEntry reads them with ReadAt and tests the count afterwards, Open
\* and ReadEntry read them with ReadOff.
DecodeHdr(b, site) ==
  LET r == IF site = "ReadAt" THEN ReadAt(b, U32(hdrSize), U32(0))
           ELSE ReadOff(b, U32(0), U32(hdrSize))
  IN  IF r.err # "nil" THEN [err |-> r.err, hdr |-> NilBytes]
      ELSE IF Len(r.buf) # hdrSize
        THEN [err |-> "ErrInvalidEntryHeader", hdr |-> NilBytes]
      ELSE [err |-> "nil", hdr |-> r.buf]

\* e := createEntry(flag, key, value)
EntryCreate ==
  /\ arg.kind = "entry"
  /\ written = <<>>
  /\ written' = <<createEntry(arg.flag, arg.key, arg.value)>>
  /\ ret' = [NoRet EXCEPT !.op = "createEntry", !.key = arg.key,
                          !.value = arg.value]
  /\ UNCHANGED <<dir, isOpen, fsync, segments, index, lastCall, lastOk,
                 everOk, prev, hist, nops, flipped, held, tmp, cpc, arg, extVars>>
  /\ UNCHANGED concVars

\* e.verify(key) with the key the entry was made from
EntryVerify ==
  /\ ret.op = "createEntry"
  /\ ret' = [ret EXCEPT !.op = "verify", !.err = verify(written[1], arg.key)]
  /\ UNCHANGED <<dir, isOpen, fsync, segments, index, lastCall, lastOk,
                 everOk, prev, hist, nops>>
  /\ UNCHANGED concVars
  /\ UNCHANGED envVars

\* The header is built from its fields and encoded; ret.value is the bytes.
HdrEncode ==
  /\ arg.kind = "hdr"
  /\ ret.op = "none"
  /\ ret' = [NoRet EXCEPT !.op = "encode",
                          !.value = encode(arg.flag, arg.keySize,
                                           arg.valueSize, arg.checksum)]
  /\ UNCHANGED <<dir, isOpen, fsync, segments, index, lastCall, lastOk,
                 everOk, prev, hist, nops>>
  /\ UNCHANGED concVars
  /\ UNCHANGED envVars

\* A header is decoded from the first arg.given bytes of the encoding;
\* ret.key is the bytes given, ret.value the header.
HdrDecodeWith(b, d) ==
  /\ ret' = [NoRet EXCEPT !.op = "decode", !.key = b, !.value = d.hdr,
                          !.err = d.err]
  /\ UNCHANGED <<dir, isOpen, fsync, segments, index, lastCall, lastOk,
                 everOk, prev, hist, nops>>
  /\ UNCHANGED concVars
  /\ UNCHANGED envVars

HdrDecode(site) ==
  /\ ret.op = "encode"
  /\ HdrDecodeWith(SubSeq(ret.value, 1, arg.given),
                   DecodeHdr(SubSeq(ret.value, 1, arg.given), site))

NextEntry ==
  \/ EntryCreate
  \/ EntryVerify
  \/ HdrEncode
  \/ \E site \in {"ReadAt", "ReadOff"} : HdrDecode(site)

SpecEntry == InitEntry /\ [][NextEntry]_vars

\* -------------------------------------------------------------- hash index
\* index.go (the draft on mmap.File): a file of a 6-byte header and 14-byte
\* items (hash 8, segment 2, offset 4, little-endian), mapped; buckets of
\* maps in memory.  The file is modelled item by item: an item is the three
\* fields its 14 bytes hold, and 14 zero bytes are the item <<0, 0, 0>>.
indexItemSize == 14
IndexHeaderSize == 6

IndexShiftBound == 2
BucketsBound == 2
MaxIdxOps == 4
MaxIdxOpens == 2

bucketsCount == BucketsBound

\* indexBlock = 14 << 16
indexBlock == indexItemSize * (2 ^ IndexShiftBound)

\* uint64 hashes; 1 and 3 share a bucket.
Hashes == {0, 1, 3}

IdxItems == {[id |-> 0, off |-> 0], [id |-> 1, off |-> 6]}

\* item{}
NoItem == [id |-> 0, off |-> 0]

ZeroSlot == [k |-> 0, id |-> 0, off |-> 0]

\* The length in bytes of an index file of the given items.
FileLen(slots) == IndexHeaderSize + indexItemSize * Len(slots)

\* The item at byte offset c of the file.
SlotAt(c) == ((c - IndexHeaderSize) \div indexItemSize) + 1

\* openIndex on a file of size 0: header, then Truncate(n + indexBlock).
IdxNewFile == [i \in 1..(indexBlock \div indexItemSize) |-> ZeroSlot]

\* bucket.Init for every bucket
EmptyBuckets == [b \in 0..(bucketsCount - 1) |-> <<>>]

\* A bucket that keeps the item a key already has.
BucketSetFirst(items, k, it) ==
  [x \in (DOMAIN items) \cup {k} |->
     IF x \in DOMAIN items THEN items[x] ELSE it]

\* bucket.Set: b.items[k] = item
BucketSet(items, k, it) ==
  [x \in (DOMAIN items) \cup {k} |-> IF x = k THEN it ELSE items[x]]

\* bucket.Get
BucketGet(items, k) ==
  IF k \in DOMAIN items THEN [it |-> items[k], ok |-> TRUE]
  ELSE [it |-> NoItem, ok |-> FALSE]

\* index.set: the bucket is k % bucketsCount.
IdxSet(buckets, k, id, off) ==
  [buckets EXCEPT ![k % bucketsCount] = BucketSet(@, k, [id |-> id, off |-> off])]

\* index.get
IdxGetItem(buckets, k) == BucketGet(buckets[k % bucketsCount], k)

RECURSIVE IdxLoad(_, _, _, _)
\* index.load: items are read from the header on until the end of the
\* mapping or an item whose three fields are zero.
IdxLoad(file, c, buckets, total) ==
  IF c >= FileLen(file)
    THEN [err |-> "nil", c |-> c, buckets |-> buckets, total |-> total]
  ELSE IF c + indexItemSize > FileLen(file)
    THEN [err |-> "mmap.ErrInvalidOffset", c |-> c, buckets |-> buckets,
          total |-> total]
  ELSE IF file[SlotAt(c)] = ZeroSlot
    THEN [err |-> "nil", c |-> c, buckets |-> buckets, total |-> total]
  ELSE IdxLoad(file, c + indexItemSize,
               IdxSet(buckets, file[SlotAt(c)].k, file[SlotAt(c)].id,
                      file[SlotAt(c)].off),
               total + 1)

\* openIndex(filePath) on the file (None when there is none): the object.
openIndexOn(file, l) ==
  [open |-> TRUE, file |-> file, c |-> l.c, buckets |-> l.buckets,
   total |-> l.total]

openIndex(file) ==
  openIndexOn(file, IdxLoad(file, IndexHeaderSize, EmptyBuckets, 0))

\* The Insert calls that returned nil and the number of openIndex calls.
NoLog == [calls |-> <<>>, opens |-> 0]

IdxCore ==
  <<dir, isOpen, fsync, segments, index, lastCall, lastOk, everOk, prev, hist,
    nops, flipped, held, tmp, cpc, written, arg, oc, mapVars>>

IdxOpen ==
  /\ IF hidx = None THEN TRUE ELSE ~hidx.open
  /\ ilog.opens < MaxIdxOpens
  /\ hidx' = IF hidx = None THEN openIndex(IdxNewFile)
             ELSE openIndex(hidx.file)
  /\ ilog' = [(IF hidx = None THEN NoLog ELSE ilog)
                EXCEPT !.opens = @ + 1]
  /\ ret' = [NoRet EXCEPT !.op = "openIndex"]
  /\ UNCHANGED IdxCore
  /\ UNCHANGED concVars

\* Insert at a cursor beyond the first block that is a multiple of the
\* number of items of a block: Close, os.Truncate(path, c + indexBlock) and
\* the file mapped again.
IdxGrown(file, c) ==
  IF c > indexBlock \div indexItemSize /\ c % (indexBlock \div indexItemSize) = 0
       /\ FileLen(file) < c + indexBlock
    THEN file \o [i \in 1..((c + indexBlock - FileLen(file)) \div indexItemSize)
                    |-> ZeroSlot]
  ELSE IF c > indexBlock \div indexItemSize
            /\ c % (indexBlock \div indexItemSize) = 0
    THEN SubSeq(file, 1, SlotAt(c + indexBlock) - 1)
  ELSE file

\* index.Insert once the file has the length f: WriteAt(b, c), set, the
\* cursor and the total.
IdxInsertAt(x, f, k, id, off) ==
  IF x.c > FileLen(f)
    THEN [err |-> "mmap.ErrInvalidOffset", idx |-> [x EXCEPT !.file = f]]
  ELSE IF x.c + indexItemSize > FileLen(f)
    THEN [err |-> "io.ErrShortWrite", idx |-> [x EXCEPT !.file = f]]
  ELSE [err |-> "nil",
        idx |-> [x EXCEPT
                   !.file = [f EXCEPT ![SlotAt(x.c)] =
                                        [k |-> k, id |-> id, off |-> off]],
                   !.buckets = IdxSet(x.buckets, k, id, off),
                   !.c = x.c + indexItemSize,
                   !.total = x.total + 1]]

IdxInsertWith(k, id, off, r) ==
  /\ hidx' = r.idx
  /\ ilog' = IF r.err = "nil"
               THEN [ilog EXCEPT !.calls = Append(@, [k |-> k, id |-> id,
                                                       off |-> off])]
               ELSE ilog
  /\ ret' = [NoRet EXCEPT !.op = "Insert", !.key = k, !.err = r.err]
  /\ UNCHANGED IdxCore
  /\ UNCHANGED concVars

IdxInsert(k, id, off) ==
  /\ hidx # None
  /\ hidx.open
  /\ Len(ilog.calls) < MaxIdxOps
  /\ IdxInsertWith(k, id, off,
                   IdxInsertAt(hidx, IdxGrown(hidx.file, hidx.c), k, id, off))

\* index.Get(k)
IdxGet(k) ==
  /\ hidx # None
  /\ ret' = [NoRet EXCEPT !.op = "index.Get", !.key = k,
                          !.value = IdxGetItem(hidx.buckets, k)]
  /\ UNCHANGED <<hidx, ilog>>
  /\ UNCHANGED IdxCore
  /\ UNCHANGED concVars

\* index.Length()
IdxLength ==
  /\ hidx # None
  /\ ret' = [NoRet EXCEPT !.op = "Length", !.value = hidx.total]
  /\ UNCHANGED <<hidx, ilog>>
  /\ UNCHANGED IdxCore
  /\ UNCHANGED concVars

\* index.Close(): Flush (the mapping is synced) and the mapping closed.
IdxClose ==
  /\ hidx # None
  /\ hidx.open
  /\ hidx' = [hidx EXCEPT !.open = FALSE]
  /\ ret' = [NoRet EXCEPT !.op = "index.Close"]
  /\ UNCHANGED ilog
  /\ UNCHANGED IdxCore
  /\ UNCHANGED concVars

NextIdx ==
  \/ IdxOpen
  \/ \E k \in Hashes, it \in IdxItems : IdxInsert(k, it.id, it.off)
  \/ \E k \in Hashes : IdxGet(k)
  \/ IdxLength
  \/ IdxClose

SpecIdx == Init /\ [][NextIdx]_vars

\* ------------------------------------------------- Open by several goroutines
\* Each goroutine runs Open(path) on the same empty directory and then
\* Close.  A file is [data |-> bytes]; a descriptor refers to the file
\* itself, whatever its name becomes: "tmp" while it is the file named
\* 0000.initializing, "seg" once a rename made it 0000, "gone" once another
\* rename replaced it.
OcCore ==
  <<dir, isOpen, fsync, segments, index, ret, lastCall, lastOk, everOk, prev,
    hist, nops, flipped, held, tmp, cpc, written, arg, hidx, ilog, mapVars>>

OcSet(g, at, fd, err) ==
  [oc.g EXCEPT ![g] = [pc |-> at, fd |-> fd, err |-> err]]

\* openSegments: ioutil.ReadDir; 0000.initializing does not parse as an id.
OcReadDir(g) ==
  /\ oc.g[g].pc = "start"
  /\ oc' = [oc EXCEPT !.g = OcSet(g, IF oc.seg # None THEN "open" ELSE "create",
                                  "none", "nil")]
  /\ UNCHANGED OcCore
  /\ UNCHANGED concVars

\* createSegment: os.Create(path + ".initializing") makes the file or
\* truncates the one that has this name.
OcCreate(g) ==
  /\ oc.g[g].pc = "create"
  /\ oc' = [oc EXCEPT !.tmp = [data |-> <<>>],
                      !.g = OcSet(g, "write", "tmp", "nil")]
  /\ UNCHANGED OcCore
  /\ UNCHANGED concVars

\* What a write or a truncate through the descriptor of g leaves of the
\* files: the file of the descriptor gets the data d.
OcFiles(g, d) ==
  [oc EXCEPT !.tmp = IF oc.g[g].fd = "tmp" THEN [data |-> d] ELSE @,
             !.seg = IF oc.g[g].fd = "seg" THEN [data |-> d] ELSE @]

\* The data of the file the descriptor of g refers to.
OcData(g) ==
  IF oc.g[g].fd = "tmp" THEN oc.tmp.data
  ELSE IF oc.g[g].fd = "seg" THEN oc.seg.data
  ELSE <<>>

\* hdr.WriteTo(f) and f.Sync(): the header at offset 0 of the descriptor.
OcWriteMeta(g) ==
  /\ oc.g[g].pc = "write"
  /\ oc' = [OcFiles(g, MetaBytes \o SubSeq(OcData(g), SegmentHeaderSize + 1,
                                           Len(OcData(g))))
              EXCEPT !.g = OcSet(g, "truncate", oc.g[g].fd, "nil")]
  /\ UNCHANGED OcCore
  /\ UNCHANGED concVars

\* f.Truncate(SegmentSize) and f.Close()
OcTruncate(g) ==
  /\ oc.g[g].pc = "truncate"
  /\ oc' = [OcFiles(g, TruncateTo(OcData(g), SegmentSize))
              EXCEPT !.g = OcSet(g, "rename", "none", "nil")]
  /\ UNCHANGED OcCore
  /\ UNCHANGED concVars

\* os.Rename(f.Name(), path): by name.  Without a file of the temporary
\* name it fails, createSegment returns the error and Open returns it.
OcRename(g) ==
  /\ oc.g[g].pc = "rename"
  /\ oc' = IF oc.tmp = None
             THEN [oc EXCEPT !.g = OcSet(g, "failed", "none", "ErrNotExist")]
           ELSE [seg |-> oc.tmp, tmp |-> None,
                 g |-> [h \in Goroutines |->
                          IF h = g THEN [pc |-> "open", fd |-> "none",
                                         err |-> "nil"]
                          ELSE [oc.g[h] EXCEPT
                                  !.fd = IF @ = "tmp" THEN "seg"
                                         ELSE IF @ = "seg" THEN "gone"
                                         ELSE @]]]
  /\ UNCHANGED OcCore
  /\ UNCHANGED concVars

\* The error of segment.Open on the file named 0000: a file of size 0 is
\* not mapped and ReadOff returns ErrClosed.
OcOpenErr(data) ==
  IF Len(data) = 0 THEN "mmap.ErrClosed" ELSE SegmentOpen(data).err

\* segment.Open of the file named 0000; after an error Open closes the DB
\* and returns the error.  The mapping is of the file, as a descriptor.
OcSegOpen(g) ==
  /\ oc.g[g].pc = "open"
  /\ oc' = [oc EXCEPT !.g =
              IF OcOpenErr(oc.seg.data) = "nil"
                THEN OcSet(g, "opened", "seg", "nil")
                ELSE OcSet(g, "failed", "none", OcOpenErr(oc.seg.data))]
  /\ UNCHANGED OcCore
  /\ UNCHANGED concVars

\* DB.Close(): segment.Close of the one segment returns nil.
OcClose(g) ==
  /\ oc.g[g].pc = "opened"
  /\ oc' = [oc EXCEPT !.g = OcSet(g, "closed", "none", "nil")]
  /\ UNCHANGED OcCore
  /\ UNCHANGED concVars

NextOpen ==
  \E g \in Goroutines :
    \/ OcReadDir(g)
    \/ OcCreate(g)
    \/ OcWriteMeta(g)
    \/ OcTruncate(g)
    \/ OcRename(g)
    \/ OcSegOpen(g)
    \/ OcClose(g)

SpecOpen == Init /\ [][NextOpen]_vars

\* --------------------------------------------------------- Open that fails
\* Open with a file-system call that returns an error: ioutil.ReadDir, the
\* os.OpenFile inside mmap.OpenFile for the directory entry i (a
\* subdirectory with a hexadecimal name, a file that cannot be opened for
\* writing), or the os.Create of createSegment.
OpenFaults == {"ReadDir", "OpenFile", "Create"}

\* The directory entries before i.
Below(d, i) == [j \in SegIds |-> IF j < i THEN d[j] ELSE NoFile]

IdsOf(segs) == {segs[j].id : j \in 1..Len(segs)}

\* What Open does when the call fails: the error, the segments that were
\* mapped at that moment, the segments that were closed, and whether a nil
\* pointer was dereferenced.  segment.Open calls s.Close() after every
\* error, and s.Close() calls s.mmap.Close(): when mmap.OpenFile returned
\* the error s.mmap is nil, and File.Close reads f.data.  After an error
\* returned by openSegments Open calls db.Close(), which closes db.segments.
OpenFailAt(kind, o) ==
  IF kind = "OpenFile" /\ o.err = "nil"
    THEN [err |-> "ErrOpenFile", opened |-> IdsOf(o.segments), closed |-> {},
          deref |-> TRUE]
  ELSE IF kind = "OpenFile"
    THEN [err |-> o.err, opened |-> IdsOf(o.segments),
          closed |-> IdsOf(o.segments), deref |-> FALSE]
  ELSE [err |-> "Err" \o kind, opened |-> {}, closed |-> {}, deref |-> FALSE]

OpenFaultWith(r) ==
  /\ ret' = [NoRet EXCEPT !.op = "OpenFault", !.err = r.err, !.value = r]
  /\ UNCHANGED <<dir, isOpen, fsync, segments, index, lastCall, lastOk,
                 everOk, prev, hist, nops>>
  /\ UNCHANGED concVars
  /\ UNCHANGED envVars

OpenFault(kind, i) ==
  /\ ~isOpen
  /\ kind = "ReadDir" => i = 0
  /\ kind = "OpenFile" => dir[i] # NoFile
  /\ kind = "Create" => (i = 0 /\ \A j \in SegIds : dir[j] = NoFile)
  /\ OpenFaultWith(OpenFailAt(kind, OpenFrom(Below(dir, i), 0, <<>>)))

NextOpenFault ==
  \/ \E f \in BOOLEAN : Open(f)
  \/ \E in \in PutInputs : Put(in[1], in[2])
  \/ Close
  \/ \E kind \in OpenFaults, i \in SegIds : OpenFault(kind, i)

SpecOpenFault == Init /\ [][NextOpenFault]_vars

\* ------------------------------------------------ names in the directory
\* A file name is the sequence of its characters.  NameList holds the
\* names a database directory may have, in the order ioutil.ReadDir
\* returns them (sorted by name, byte by byte).
NameList ==
  << <<"0", "0", "0", "0", "1">>,
     <<"0", "0", "0", "1">>,
     <<"0", "0", "0", "1", ".", "t", "m", "p">>,
     <<"1">>,
     <<"1", "0", "0", "0", "0">>,
     <<"A", "B", "C", "D">>,
     <<"a", "b", "c", "d">>,
     <<"a", "b", "c", "g">> >>

LowerDigits == <<"0", "1", "2", "3", "4", "5", "6", "7", "8", "9",
                 "a", "b", "c", "d", "e", "f">>

UpperDigits == <<"A", "B", "C", "D", "E", "F">>

\* The value of the character c as a digit of base 16, -1 when it is none.
DigitVal(c) ==
  IF \E i \in 1..16 : LowerDigits[i] = c
    THEN (CHOOSE i \in 1..16 : LowerDigits[i] = c) - 1
  ELSE IF \E i \in 1..6 : UpperDigits[i] = c
    THEN 9 + (CHOOSE i \in 1..6 : UpperDigits[i] = c)
  ELSE -1

\* strconv.ParseUint(name, 16, 32) from character i on, n the value so far
\* as a pair of 16-bit halves.
RECURSIVE ParseUint16(_, _, _)
ParseUint16(name, i, n) ==
  IF i > Len(name) THEN [err |-> "nil", n |-> n]
  ELSE IF DigitVal(name[i]) < 0 THEN [err |-> "ErrSyntax", n |-> <<0, 0>>]
  ELSE IF n[1] >= 4096 THEN [err |-> "ErrRange", n |-> <<65535, 65535>>]
  ELSE ParseUint16(name, i + 1,
                   <<n[1] * 16 + (n[2] \div 4096),
                     (n[2] % 4096) * 16 + DigitVal(name[i])>>)

\* parseSegmentFilename: uint16(i) keeps the low half.
parseSegmentFilename(name) ==
  IF name = <<>> THEN [id |-> 0, err |-> "ErrSyntax"]
  ELSE [id |-> ParseUint16(name, 1, <<0, 0>>).n[2],
        err |-> ParseUint16(name, 1, <<0, 0>>).err]

\* The loop of openSegments over the entries of the listing from the i-th
\* name on: an entry whose name does not parse is skipped.  Every file is a
\* segment file that opens.
RECURSIVE OpenList(_, _, _)
OpenList(listing, i, segs) ==
  IF i > Len(NameList) THEN segs
  ELSE IF i \notin listing \/ parseSegmentFilename(NameList[i]).err # "nil"
    THEN OpenList(listing, i + 1, segs)
  ELSE OpenList(listing, i + 1,
                Append(segs, [id |-> parseSegmentFilename(NameList[i]).id,
                              name |-> NameList[i]]))

\* createSegment when the loop opened nothing.
FirstIfNone(segs) ==
  IF segs = <<>> THEN <<[id |-> 0, name |-> <<"0", "0", "0", "0">>]>>
  ELSE segs

NameCore == <<dir, isOpen, fsync, segments, index, lastCall, lastOk, everOk,
              prev, hist, nops, flipped, held, tmp, cpc, written, extVars>>

\* A file of the i-th name appears in the directory of the closed database.
NameAdd(i) ==
  /\ ret.op = "none"
  /\ IF arg = None THEN TRUE ELSE i \notin arg.set
  /\ arg' = [kind |-> "names",
             set |-> (IF arg = None THEN {} ELSE arg.set) \cup {i}]
  /\ UNCHANGED <<ret, NameCore>>
  /\ UNCHANGED concVars

\* Open on the directory.
OpenNames ==
  /\ ret.op = "none"
  /\ arg # None
  /\ ret' = [NoRet EXCEPT !.op = "OpenNames",
                          !.value = FirstIfNone(OpenList(arg.set, 1, <<>>))]
  /\ UNCHANGED <<arg, NameCore>>
  /\ UNCHANGED concVars

NextNames ==
  \/ \E i \in 1..Len(NameList) : NameAdd(i)
  \/ OpenNames

SpecNames == Init /\ [][NextNames]_vars

\* --------------------------------------------------- a mapped file alone
\* A mmap.File opened with Read|Write on a file of FhData and used by one
\* caller.  fh.data is f.data (isnil tells the nil slice), fh.c is f.c.
FhData == <<5, 6>>

FhLens == 0..3

FhOffs == {-1, 0, 1, 3}

FhBytes == {<<>>, <<7>>, <<7, 8, 9>>}

MaxFhOps == 3

FhCore == <<dir, isOpen, fsync, segments, index, lastCall, lastOk, everOk,
            prev, hist, flipped, held, tmp, cpc, written, arg, hidx, ilog,
            oc, mf>>

FhRet(op, value, err) == [NoRet EXCEPT !.op = op, !.value = value, !.err = err]

\* mmap.OpenFile(filename, Read|Write)
FhOpen ==
  /\ fh = None
  /\ fh' = [data |-> FhData, isnil |-> FALSE, c |-> 0]
  /\ ret' = FhRet("OpenFile", <<>>, "nil")
  /\ UNCHANGED <<nops, FhCore>>
  /\ UNCHANGED concVars

FhCall == fh # None /\ nops < MaxFhOps

\* f.Read(p) with len(p) = n: the test is on the cursor and the length of
\* f.data, which is 0 for the nil slice.
FhRead(n) ==
  /\ FhCall
  /\ nops' = nops + 1
  /\ IF fh.c >= Len(fh.data)
       THEN /\ ret' = FhRet("Read", <<>>, "io.EOF")
            /\ fh' = fh
       ELSE /\ ret' = FhRet("Read",
                            SubSeq(fh.data, fh.c + 1,
                                   fh.c + Min(n, Len(fh.data) - fh.c)),
                            "nil")
            /\ fh' = [fh EXCEPT !.c = @ + Min(n, Len(fh.data) - fh.c)]
  /\ UNCHANGED FhCore
  /\ UNCHANGED concVars

\* f.ReadAt(p, off) with len(p) = n
FhReadAt(n, off) ==
  /\ FhCall
  /\ nops' = nops + 1
  /\ fh' = fh
  /\ ret' = IF fh.isnil THEN FhRet("ReadAt", <<>>, "mmap.ErrClosed")
            ELSE IF off < 0 \/ Len(fh.data) < off
              THEN FhRet("ReadAt", <<>>, "mmap.ErrInvalidOffset")
            ELSE FhRet("ReadAt",
                       SubSeq(fh.data, off + 1,
                              off + Min(n, Len(fh.data) - off)),
                       IF Len(fh.data) - off < n THEN "io.EOF" ELSE "nil")
  /\ UNCHANGED FhCore
  /\ UNCHANGED concVars

\* f.ReadOff(off, length)
FhReadOff(off, length) ==
  /\ FhCall
  /\ nops' = nops + 1
  /\ fh' = fh
  /\ ret' = IF fh.isnil THEN FhRet("ReadOff", <<>>, "mmap.ErrClosed")
            ELSE IF off < 0
              THEN FhRet("ReadOff", <<>>, "mmap.ErrInvalidOffset")
            ELSE FhRet("ReadOff", ReadOff(fh.data, U32(off), U32(length)).buf,
                       ReadOff(fh.data, U32(off), U32(length)).err)
  /\ UNCHANGED FhCore
  /\ UNCHANGED concVars

\* f.Write(p)
FhWriteWith(r) ==
  /\ fh' = [fh EXCEPT !.data = r.data, !.c = U32Int(r.c)]
  /\ ret' = FhRet("Write", <<r.n>>, r.err)

FhWrite(p) ==
  /\ FhCall
  /\ nops' = nops + 1
  /\ FhWriteWith(MmapWrite(fh.data, U32(fh.c), p))
  /\ UNCHANGED FhCore
  /\ UNCHANGED concVars

\* f.WriteAt(p, off)
FhWriteAt(p, off) ==
  /\ FhCall
  /\ nops' = nops + 1
  /\ IF fh.isnil
       THEN /\ ret' = FhRet("WriteAt", <<0>>, "mmap.ErrClosed")
            /\ fh' = fh
     ELSE IF off < 0 \/ Len(fh.data) < off
       THEN /\ ret' = FhRet("WriteAt", <<0>>, "mmap.ErrInvalidOffset")
            /\ fh' = fh
     ELSE /\ ret' = FhRet("WriteAt", <<Min(Len(p), Len(fh.data) - off)>>,
                          IF Len(fh.data) - off < Len(p)
                            THEN "ErrShortWrite" ELSE "nil")
          /\ fh' = [fh EXCEPT !.data =
                      Patch(@, off,
                            SubSeq(p, 1, Min(Len(p), Len(fh.data) - off)))]
  /\ UNCHANGED FhCore
  /\ UNCHANGED concVars

\* f.Close(): nil at once when f.data is nil, else f.data = nil and the
\* view is unmapped.
FhClose ==
  /\ FhCall
  /\ nops' = nops + 1
  /\ fh' = [fh EXCEPT !.data = <<>>, !.isnil = TRUE]
  /\ ret' = FhRet(IF fh.isnil THEN "Close again" ELSE "Close", <<>>, "nil")
  /\ UNCHANGED FhCore
  /\ UNCHANGED concVars

NextFh ==
  \/ FhOpen
  \/ \E n \in FhLens : FhRead(n)
  \/ \E n \in FhLens, off \in FhOffs : FhReadAt(n, off)
  \/ \E off \in FhOffs, n \in FhLens : FhReadOff(off, n)
  \/ \E p \in FhBytes : FhWrite(p)
  \/ \E p \in FhBytes, off \in FhOffs : FhWriteAt(p, off)
  \/ FhClose

SpecFh == Init /\ [][NextFh]_vars

\* ------------------------------------------------- a buffered mapped file
\* mmap.MapFile (mmap_unix.go) and the file under it.  mf.file is the
\* content of the file, which os.File.Write appends to (the descriptor was
\* moved to the end); the mapping mf.data is the first mf.mapped bytes of
\* the file; fopen tells mf.file # nil and isnil tells mf.data == nil.
\* mf.all is the content the file had when it was created followed by the
\* bytes of every Write that returned nil, and mf.closed tells that Close
\* returned nil.  The calls of the file system succeed.
MfBufSize == 2

MaxMfOps == 4

MfFileLens == {0, 2}

MfWriteLens == 0..3

MfReadLens == 1..3

\* OpenWithBufferSize(path, MfBufSize) on a file of the content file
MfOpenOn(file, all) ==
  IF Len(file) = 0
    THEN [file |-> file, mapped |-> 0, isnil |-> TRUE, fopen |-> FALSE,
          size |-> 0, err |-> "nil", buf |-> <<>>, n |-> 0, all |-> all,
          closed |-> FALSE]
  ELSE [file |-> file, mapped |-> Len(file), isnil |-> FALSE, fopen |-> TRUE,
        size |-> Len(file), err |-> "nil", buf |-> Zeros(MfBufSize), n |-> 0,
        all |-> all, closed |-> FALSE]

\* mf.Flush(): the handle afterwards; mf.err tells what it returned.
MfFlushed(m) ==
  IF m.err # "nil" \/ m.n = 0 THEN m
  ELSE IF ~m.fopen THEN [m EXCEPT !.err = "os.ErrInvalid"]
  ELSE [m EXCEPT !.file = @ \o SubSeq(m.buf, 1, m.n), !.n = 0]

\* The buffer with p copied to buf[n:].
MfCopy(m, p) ==
  [i \in 1..Len(m.buf) |->
     IF i > m.n /\ i <= m.n + Len(p) THEN p[i - m.n] ELSE m.buf[i]]

\* The loop of Write: while p does not fit the free part of the buffer, an
\* empty buffer lets p go to the file directly, a used one is filled and
\* flushed.
RECURSIVE MfWriteLoop(_, _, _)
MfWriteLoop(m, p, nn) ==
  IF ~(Len(p) > Len(m.buf) - m.n /\ m.err = "nil")
    THEN [m |-> m, p |-> p, nn |-> nn]
  ELSE IF m.n = 0 /\ m.fopen
    THEN MfWriteLoop([m EXCEPT !.file = @ \o p], <<>>, nn + Len(p))
  ELSE IF m.n = 0
    THEN MfWriteLoop([m EXCEPT !.err = "os.ErrInvalid"], p, nn)
  ELSE MfWriteLoop(
         MfFlushed([m EXCEPT !.buf = MfCopy(m, SubSeq(p, 1, Len(m.buf) - m.n)),
                             !.n = Len(m.buf)]),
         SubSeq(p, Len(m.buf) - m.n + 1, Len(p)),
         nn + (Len(m.buf) - m.n))

\* The end of Write after the loop l: the rest of p goes to the buffer and
\* size grows by the bytes taken, unless an error was met.
MfWriteEnd(l, p) ==
  IF l.m.err # "nil" THEN [m |-> l.m, nn |-> l.nn, err |-> l.m.err]
  ELSE [m |-> [l.m EXCEPT !.buf = MfCopy(l.m, l.p), !.n = @ + Len(l.p),
                          !.size = @ + l.nn + Len(l.p), !.all = @ \o p],
        nn |-> l.nn + Len(l.p), err |-> "nil"]

\* mf.ReadAt(p, off) with len(p) = n: the bytes copied to p.  The slice
\* expression mf.data[off:] panics when off is beyond the mapping.
MfReadAtOf(m, n, off) ==
  IF m.isnil THEN [err |-> "mmap: closed", buf |-> <<>>]
  ELSE IF off < 0 \/ m.size < off
    THEN [err |-> "mmap: invalid ReadAt offset", buf |-> <<>>]
  ELSE IF m.size < n + off THEN [err |-> "io.EOF", buf |-> <<>>]
  ELSE IF off > m.mapped THEN [err |-> "panic", buf |-> <<>>]
  ELSE IF m.mapped - off >= n
    THEN [err |-> "nil", buf |-> SubSeq(m.file, off + 1, off + n)]
  ELSE [err |-> "nil",
        buf |-> SubSeq(m.file, off + 1, m.mapped)
                  \o SubSeq(m.buf, 1, Min(n - (m.mapped - off), Len(m.buf)))]

MfCore == <<dir, isOpen, fsync, segments, index, lastCall, lastOk, everOk,
            prev, hist, flipped, held, tmp, cpc, written, arg, hidx, ilog,
            oc, fh>>

\* A file of n zero bytes is created (os.Create, Truncate) and opened, or
\* the file of a closed handle is opened again.
MfOpen(n) ==
  /\ nops < MaxMfOps
  /\ IF mf = None THEN n \in MfFileLens ELSE mf.closed /\ n = Len(mf.file)
  /\ nops' = nops + 1
  /\ mf' = IF mf = None THEN MfOpenOn(Zeros(n), Zeros(n))
           ELSE MfOpenOn(mf.file, mf.all)
  /\ ret' = FhRet("mf.Open", <<>>, "nil")
  /\ UNCHANGED MfCore
  /\ UNCHANGED concVars

MfCall == mf # None /\ nops < MaxMfOps

MfWriteWith(p, r) ==
  /\ mf' = r.m
  /\ ret' = [NoRet EXCEPT !.op = "mf.Write", !.key = p, !.value = <<r.nn>>,
                          !.err = r.err]

\* mf.Write(p) on a handle that was not closed; the call nops + 1 writes
\* bytes of that value.
MfWrite(n) ==
  /\ MfCall
  /\ ~mf.closed
  /\ nops' = nops + 1
  /\ MfWriteWith(Rep(nops + 1, n),
                 MfWriteEnd(MfWriteLoop(mf, Rep(nops + 1, n), 0),
                            Rep(nops + 1, n)))
  /\ UNCHANGED MfCore
  /\ UNCHANGED concVars

\* mf.ReadAt(p, off) with len(p) = n
MfReadAtWith(n, off, r) ==
  /\ ret' = [NoRet EXCEPT !.op = "mf.ReadAt", !.key = <<off, n>>,
                          !.value = r.buf, !.err = r.err]
  /\ UNCHANGED <<mf, nops>>

MfReadAt(n, off) ==
  /\ mf # None
  /\ MfReadAtWith(n, off, MfReadAtOf(mf, n, off))
  /\ UNCHANGED MfCore
  /\ UNCHANGED concVars

\* mf.Flush() on a handle that was not closed
MfFlush ==
  /\ MfCall
  /\ ~mf.closed
  /\ nops' = nops + 1
  /\ mf' = MfFlushed(mf)
  /\ ret' = FhRet("mf.Flush", <<>>, MfFlushed(mf).err)
  /\ UNCHANGED MfCore
  /\ UNCHANGED concVars

\* mf.Close(): flushes and closes the file, then unmaps.
MfClose ==
  /\ MfCall
  /\ nops' = nops + 1
  /\ IF mf.fopen /\ MfFlushed(mf).err # "nil"
       THEN /\ mf' = MfFlushed(mf)
            /\ ret' = FhRet("mf.Close", <<>>, MfFlushed(mf).err)
       ELSE /\ mf' = [(IF mf.fopen THEN MfFlushed(mf) ELSE mf)
                        EXCEPT !.fopen = FALSE, !.isnil = TRUE, !.mapped = 0,
                               !.closed = TRUE]
            /\ ret' = FhRet("mf.Close", <<>>, "nil")
  /\ UNCHANGED MfCore
  /\ UNCHANGED concVars

NextMf ==
  \/ \E n \in MfFileLens \cup 1..(2 + 3 * MaxMfOps) : MfOpen(n)
  \/ \E n \in MfWriteLens : MfWrite(n)
  \/ \E n \in MfReadLens, off \in 0..(2 + 3 * MaxMfOps) : MfReadAt(n, off)
  \/ MfFlush
  \/ MfClose

SpecMf == Init /\ [][NextMf]_vars

\* ------------------------------------------------------------- goroutines
\* Goroutines calling Put, Delete and Get on one handle.  The n-th call of
\* a run that is a Put carries a value of bytes n, so no two calls put the
\* same value.
ConcKeys == {<<1>>, KLong}

Idle(g) == isOpen /\ pc[g] = "idle" /\ mu.w # g /\ g \notin mu.r

\* DB.Put up to db.mu.Lock(): validation runs before the lock.
PutCall(g, key, len) ==
  LET value == Rep(nops + 1, len)
      verr == IF validateKey(key) # "nil" THEN validateKey(key)
              ELSE IF Len(value) > MaxValueSize THEN "ErrValueTooLarge"
              ELSE "nil"
      c == [op |-> "Put", key |-> key, value |-> value, err |-> verr,
            floor |-> 0]
  IN  /\ Idle(g)
      /\ nops < MaxOps
      /\ nops' = nops + 1
      /\ invoked' = [invoked EXCEPT ![key] = @ \cup {value}]
      /\ IF verr # "nil"
           THEN /\ cret' = c
                /\ UNCHANGED <<pc, call>>
           ELSE /\ pc' = [pc EXCEPT ![g] = "wlock"]
                /\ call' = [call EXCEPT ![g] = c]
                /\ UNCHANGED cret
      /\ UNCHANGED <<dir, isOpen, fsync, segments, index, mu, order, retPos>>
      /\ UNCHANGED seqGhost
  /\ UNCHANGED envVars

\* DB.Delete up to db.mu.Lock(): validateKey runs before the lock.
DeleteCall(g, key) ==
  /\ Idle(g)
  /\ nops < MaxOps
  /\ nops' = nops + 1
  /\ hist' = hist \cup {"Delete"}
  /\ IF validateKey(key) # "nil"
       THEN /\ cret' = [op |-> "Delete", key |-> key, value |-> <<>>,
                        err |-> validateKey(key), floor |-> 0]
            /\ UNCHANGED <<pc, call>>
       ELSE /\ pc' = [pc EXCEPT ![g] = "wlock"]
            /\ call' = [call EXCEPT ![g] =
                          [op |-> "Delete", key |-> key, value |-> <<>>,
                           err |-> "nil", floor |-> 0]]
            /\ UNCHANGED cret
  /\ UNCHANGED <<dir, isOpen, fsync, segments, index, mu, invoked, order,
                 retPos>>
  /\ UNCHANGED <<ret, lastCall, lastOk, everOk, prev>>
  /\ UNCHANGED envVars

PutLockNoWait(g) ==
  /\ pc[g] = "wlock"
  /\ mu' = [mu EXCEPT !.w = g]
  /\ pc' = [pc EXCEPT ![g] = "set"]
  /\ UNCHANGED <<dir, isOpen, fsync, segments, index, nops, call, cret,
                 invoked, order, retPos>>
  /\ UNCHANGED seqGhost
  /\ UNCHANGED envVars

\* db.mu.Lock() in set: no writer and no reader holds the lock.
PutLock(g) ==
  /\ pc[g] = "wlock"
  /\ mu.w = 0 /\ mu.r = {}
  /\ mu' = [mu EXCEPT !.w = g]
  /\ pc' = [pc EXCEPT ![g] = "set"]
  /\ UNCHANGED <<dir, isOpen, fsync, segments, index, nops, call, cret,
                 invoked, order, retPos>>
  /\ UNCHANGED seqGhost
  /\ UNCHANGED envVars

\* The flag of the entry that the call c of Put or Delete appends.
FlagOf(c) == IF c.op = "Delete" THEN flagEntryDelete ELSE flagEntryPut

\* The body of set under the write lock up to the flush: the entry is
\* appended and indexed; the lock stays with g.
PutSetWith(g, c, r) ==
  /\ pc[g] = "set"
  /\ mu.w = g
  /\ Room(c.key, c.value, FlagOf(c))
  /\ dir' = r.dir
  /\ segments' = r.segments
  /\ index' = r.index
  /\ call' = [call EXCEPT ![g].err = r.err]
  /\ order' = IF r.err = "nil" /\ c.op = "Put"
                THEN [order EXCEPT ![c.key] = Append(@, c.value)]
                ELSE order
  /\ pc' = [pc EXCEPT ![g] = "flush"]
  /\ UNCHANGED <<isOpen, fsync, nops, mu, cret, invoked, retPos>>
  /\ UNCHANGED seqGhost
  /\ UNCHANGED envVars

PutSet(g) ==
  PutSetWith(g, call[g],
             DBSet(dir, segments, index, FALSE, call[g].key, call[g].value,
                   FlagOf(call[g])))

\* The end of set without the deferred Unlock.
PutFlushHold(g) ==
  /\ pc[g] = "flush"
  /\ mu.w = g
  /\ dir' = IF fsync /\ call[g].err = "nil"
              THEN [dir EXCEPT ![segments[Len(segments)].id] =
                      [data |-> @.data, stable |-> @.data]]
              ELSE dir
  /\ pc' = [pc EXCEPT ![g] = "ret"]
  /\ UNCHANGED <<isOpen, fsync, segments, index, nops, call, mu, cret,
                 invoked, order, retPos>>
  /\ UNCHANGED seqGhost
  /\ UNCHANGED envVars

\* The end of set: segment.Flush() of the written segment when fsync is set
\* and the entry was appended, then the deferred Unlock.
PutFlush(g) ==
  /\ pc[g] = "flush"
  /\ mu.w = g
  /\ dir' = IF fsync /\ call[g].err = "nil"
              THEN [dir EXCEPT ![segments[Len(segments)].id] =
                      [data |-> @.data, stable |-> @.data]]
              ELSE dir
  /\ mu' = [mu EXCEPT !.w = 0]
  /\ pc' = [pc EXCEPT ![g] = "ret"]
  /\ UNCHANGED <<isOpen, fsync, segments, index, nops, call, cret, invoked,
                 order, retPos>>
  /\ UNCHANGED seqGhost
  /\ UNCHANGED envVars

\* Position of v in the sequence s, 0 when absent.
PosOf(s, v) ==
  IF \E i \in 1..Len(s) : s[i] = v
    THEN CHOOSE i \in 1..Len(s) : s[i] = v
    ELSE 0

Max(a, b) == IF a >= b THEN a ELSE b

\* Put or Delete returns to its caller.
PutReturn(g) ==
  LET c == call[g]
  IN  /\ pc[g] = "ret"
      /\ cret' = c
      /\ retPos' = IF c.err = "nil" /\ c.op = "Put"
                     THEN [retPos EXCEPT ![c.key] =
                             Max(@, PosOf(order[c.key], c.value))]
                     ELSE retPos
      /\ pc' = [pc EXCEPT ![g] = "idle"]
      /\ call' = [call EXCEPT ![g] = NoCall]
      /\ UNCHANGED <<dir, isOpen, fsync, segments, index, nops, mu, invoked,
                     order>>
      /\ UNCHANGED seqGhost
  /\ UNCHANGED envVars

\* DB.Get is called; floor remembers the latest Put of key that has already
\* returned nil.
GetCall(g, key) ==
  /\ Idle(g)
  /\ pc' = [pc EXCEPT ![g] = "rlock"]
  /\ call' = [call EXCEPT ![g] = [op |-> "Get", key |-> key,
                                  value |-> NilBytes, err |-> "nil",
                                  floor |-> retPos[key]]]
  /\ UNCHANGED <<dir, isOpen, fsync, segments, index, nops, mu, cret,
                 invoked, order, retPos>>
  /\ UNCHANGED seqGhost
  /\ UNCHANGED envVars

\* db.mu.RLock() in Get: no writer holds the lock.
GetLock(g) ==
  /\ pc[g] = "rlock"
  /\ mu.w = 0
  /\ mu' = [mu EXCEPT !.r = @ \cup {g}]
  /\ pc' = [pc EXCEPT ![g] = "get"]
  /\ UNCHANGED <<dir, isOpen, fsync, segments, index, nops, call, cret,
                 invoked, order, retPos>>
  /\ UNCHANGED seqGhost
  /\ UNCHANGED envVars

\* The body of Get under the read lock, the deferred RUnlock and the return.
GetRead(g) ==
  LET c == call[g]
      r == GetNow(c.key)
  IN  /\ pc[g] = "get"
      /\ g \in mu.r
      /\ cret' = [c EXCEPT !.value = r.value, !.err = r.err]
      /\ mu' = [mu EXCEPT !.r = @ \ {g}]
      /\ pc' = [pc EXCEPT ![g] = "idle"]
      /\ call' = [call EXCEPT ![g] = NoCall]
      /\ UNCHANGED <<dir, isOpen, fsync, segments, index, nops, invoked,
                     order, retPos>>
      /\ UNCHANGED seqGhost
  /\ UNCHANGED envVars

NextConc ==
  \/ \E f \in BOOLEAN : Open(f)
  \/ \E g \in Goroutines, k \in ConcKeys, n \in ValueLens : PutCall(g, k, n)
  \/ \E g \in Goroutines, k \in ConcKeys : DeleteCall(g, k)
  \/ \E g \in Goroutines : PutLock(g)
  \/ \E g \in Goroutines : PutSet(g)
  \/ \E g \in Goroutines : PutFlush(g)
  \/ \E g \in Goroutines : PutReturn(g)
  \/ \E g \in Goroutines, k \in ConcKeys : GetCall(g, k)
  \/ \E g \in Goroutines : GetLock(g)
  \/ \E g \in Goroutines : GetRead(g)

SpecConc == Init /\ [][NextConc]_vars

\* ------------------------------------------------- goroutines, fairly run
\* sync.RWMutex as the calls of db.mu use it.  Lock first takes the inner
\* writer mutex and announces the writer (pc "wwait"), then waits until the
\* readers that hold the lock have left; from the announcement to Unlock no
\* RLock is granted.
WriterPending == \E h \in Goroutines : pc[h] = "wwait"

\* db.mu.Lock() in set, first half: the inner writer mutex is free.
LockAnnounce(g) ==
  /\ pc[g] = "wlock"
  /\ mu.w = 0
  /\ ~WriterPending
  /\ pc' = [pc EXCEPT ![g] = "wwait"]
  /\ UNCHANGED <<dir, isOpen, fsync, segments, index, nops, call, mu, cret,
                 invoked, order, retPos>>
  /\ UNCHANGED seqGhost
  /\ UNCHANGED envVars

\* db.mu.Lock() in set, second half: the last reader has left.
LockAcquire(g) ==
  /\ pc[g] = "wwait"
  /\ mu.r = {}
  /\ mu' = [mu EXCEPT !.w = g]
  /\ pc' = [pc EXCEPT ![g] = "set"]
  /\ UNCHANGED <<dir, isOpen, fsync, segments, index, nops, call, cret,
                 invoked, order, retPos>>
  /\ UNCHANGED seqGhost
  /\ UNCHANGED envVars

\* db.mu.RLock() in Get: no writer holds the lock and none is announced.
GetRLock(g) ==
  /\ ~WriterPending
  /\ GetLock(g)

NextLive ==
  \/ \E f \in BOOLEAN : Open(f)
  \/ \E g \in Goroutines, k \in ConcKeys, n \in ValueLens : PutCall(g, k, n)
  \/ \E g \in Goroutines, k \in ConcKeys : DeleteCall(g, k)
  \/ \E g \in Goroutines : LockAnnounce(g)
  \/ \E g \in Goroutines : LockAcquire(g)
  \/ \E g \in Goroutines : PutSet(g)
  \/ \E g \in Goroutines : PutFlush(g)
  \/ \E g \in Goroutines : PutReturn(g)
  \/ \E g \in Goroutines, k \in ConcKeys : GetCall(g, k)
  \/ \E g \in Goroutines : GetRLock(g)
  \/ \E g \in Goroutines : GetRead(g)

\* Goroutine g is inside a call and waits for db.mu.
Blocked(g) ==
  \/ pc[g] = "wlock" /\ (mu.w # 0 \/ WriterPending)
  \/ pc[g] = "wwait" /\ mu.r # {}
  \/ pc[g] = "rlock" /\ (mu.w # 0 \/ WriterPending)

\* The position that follows at in a call.
PcAfter(at) ==
  CASE at = "wlock" -> "wwait"
    [] at = "wwait" -> "set"
    [] at = "set" -> "flush"
    [] at = "flush" -> "ret"
    [] at = "rlock" -> "get"
    [] OTHER -> "idle"

\* Goroutine g, inside a call and not blocked, takes the next step of the
\* call: the step of NextLive that moves pc[g].
Runs(g) ==
  /\ pc[g] # "idle"
  /\ ~Blocked(g)
  /\ pc' = [pc EXCEPT ![g] = PcAfter(pc[g])]

\* The scheduler runs every goroutine that can take a step: a goroutine
\* that is not blocked on db.mu goes on, and one blocked on db.mu goes on
\* once the lock is granted.  No new call is ever forced.
FairLive == \A g \in Goroutines : WF_pc(Runs(g))

SpecLive == Init /\ [][NextLive]_vars /\ FairLive

\* ------------------------------------------------- Close beside goroutines
\* DB.Close takes no lock: it unmaps the segments while the object keeps
\* db.segments and db.index, and goroutines inside Get go on.  Get is in
\* two steps: ReadEntry hands out slices of the mapping, verify reads them.
CloseNoLock ==
  /\ isOpen
  /\ "Close" \notin hist
  /\ isOpen' = FALSE
  /\ hist' = hist \cup {"Close"}
  /\ ret' = [NoRet EXCEPT !.op = "Close"]
  /\ UNCHANGED <<dir, fsync, segments, index, lastCall, lastOk, everOk, prev,
                 nops>>
  /\ UNCHANGED concVars
  /\ UNCHANGED envVars

\* DB.Get up to the return of segment.ReadEntry: on an unmapped segment
\* ReadOff returns ErrClosed.
FetchNow(key) ==
  IF validateKey(key) # "nil" THEN [err |-> validateKey(key), e |-> NoEntry]
  ELSE IF key \notin DOMAIN index THEN [err |-> "ErrKeyNotFound", e |-> NoEntry]
  ELSE IF index[key].seg + 1 > Len(segments) THEN [err |-> "panic", e |-> NoEntry]
  ELSE IF ~isOpen THEN [err |-> "mmap.ErrClosed", e |-> NoEntry]
  ELSE ReadEntry(dir[segments[index[key].seg + 1].id].data,
                 segments[index[key].seg + 1].size, index[key].off)

GetFetchWith(g, r) ==
  /\ IF r.err # "nil"
       THEN /\ cret' = [call[g] EXCEPT !.err = r.err]
            /\ mu' = [mu EXCEPT !.r = @ \ {g}]
            /\ pc' = [pc EXCEPT ![g] = "idle"]
            /\ call' = [call EXCEPT ![g] = NoCall]
       ELSE /\ pc' = [pc EXCEPT ![g] = "verify"]
            /\ UNCHANGED <<cret, mu, call>>
  /\ UNCHANGED <<dir, isOpen, fsync, segments, index, nops, invoked, order,
                 retPos>>
  /\ UNCHANGED seqGhost
  /\ UNCHANGED envVars

GetFetch(g) ==
  /\ pc[g] = "get"
  /\ g \in mu.r
  /\ GetFetchWith(g, FetchNow(call[g].key))

\* entry.verify reads the key and the value through the slices, then Get
\* returns; r is what it finds there.  A read of unmapped memory has no
\* defined outcome.
GetVerifyWith(g, r) ==
  /\ cret' = [call[g] EXCEPT !.value = r.value, !.err = r.err]
  /\ mu' = [mu EXCEPT !.r = @ \ {g}]
  /\ pc' = [pc EXCEPT ![g] = "idle"]
  /\ call' = [call EXCEPT ![g] = NoCall]
  /\ UNCHANGED <<dir, isOpen, fsync, segments, index, nops, invoked, order,
                 retPos>>
  /\ UNCHANGED seqGhost
  /\ UNCHANGED envVars

GetVerify(g) ==
  /\ pc[g] = "verify"
  /\ IF isOpen
       THEN GetVerifyWith(g, GetNow(call[g].key))
       ELSE \E out \in {[value |-> NilBytes, err |-> "fault"],
                        GetNow(call[g].key)} : GetVerifyWith(g, out)

NextClose ==
  \/ \E f \in BOOLEAN : "Close" \notin hist /\ Open(f)
  \/ \E in \in PutInputs :
       (\A g \in Goroutines : pc[g] = "idle") /\ Put(in[1], in[2])
  \/ \E g \in Goroutines, k \in ConcKeys : GetCall(g, k)
  \/ \E g \in Goroutines : GetLock(g)
  \/ \E g \in Goroutines : GetFetch(g)
  \/ \E g \in Goroutines : GetVerify(g)
  \/ CloseNoLock

SpecClose == Init /\ [][NextClose]_vars

\* -------------------------------------------------------------- properties
ValidKey(k) == validateKey(k) = "nil"

Found(v) == [value |-> v, err |-> "nil"]

\* C1: after Put calls only (returning nil or not), a Get of k that follows
\* a Put(k, v) which returned nil, with no Put of k in between, returns
\* exactly v and a nil error.
C1_RoundTrip ==
  (ret.op = "Get" /\ hist \subseteq {"Failed"} /\ lastCall[ret.key].kind = "put")
    => (ret.err = "nil" /\ ret.value = lastCall[ret.key].value)

\* C2: after Delete(k) returned nil, Get(k) returns KeyDeleted and no value
\* until a Put(k, v') returns nil; after that Put it returns v'.
C2_Tombstone ==
  ret.op = "Get" =>
    /\ lastOk[ret.key].kind = "del"
         => (ret.err = "ErrKeyDeleted" /\ ret.value = NilBytes)
    /\ (lastOk[ret.key].kind = "put" /\ "Delete" \in hist)
         => (ret.err = "nil" /\ ret.value = lastOk[ret.key].value)

\* C3: Get of a valid key for which no Put and no Delete ever returned nil
\* returns KeyNotFound and a nil value, whatever happened to other keys.
C3_NotFound ==
  (ret.op = "Get" /\ ValidKey(ret.key) /\ ~everOk[ret.key])
    => (ret.err = "ErrKeyNotFound" /\ ret.value = NilBytes)

C3_Witness ==
  /\ ret.op = "Get" /\ ValidKey(ret.key) /\ ~everOk[ret.key]
  /\ ret.err = "ErrKeyNotFound"
  /\ \E k \in Keys : everOk[k] /\ k \in DOMAIN index
  /\ "Failed" \in hist

\* C4: after Put and Delete calls that all returned nil, Close and Open,
\* Open succeeds and Get returns for every key what it returned right
\* before Close.
C4_Reopen ==
  (ret.op = "Open" /\ prev.how = "close" /\ hist \subseteq {"Delete", "Close"})
    => (ret.err = "nil" /\ \A k \in Keys : GetNow(k) = prev.get[k])

\* C5: with fsync set, when the process stops after Put(k, v) returned nil
\* (and no later Put or Delete of k returned nil), the next Open succeeds
\* and Get(k) returns v.
C5_CrashRecovery ==
  (ret.op = "Open" /\ prev.how = "crash" /\ prev.fsync)
    => /\ ret.err = "nil"
       /\ \A k \in Keys : prev.ok[k].kind = "put"
                            => GetNow(k) = Found(prev.ok[k].value)

\* C6: a Put whose entry exceeds the free space of the active segment
\* returns nil, appends exactly one segment whose id is the previous active
\* id + 1, stores the entry in it, and leaves the earlier entries readable.
C6_Rollover ==
  (ret.op = "Put" /\ ValidKey(ret.key) /\ Len(ret.value) <= MaxValueSize
     /\ ret.nofit)
    => /\ ret.err = "nil"
       /\ Len(segments) = ret.nseg0 + 1
       /\ segments[Len(segments)].id = segments[ret.nseg0].id + 1
       /\ ret.key \in DOMAIN index
       /\ index[ret.key] = [seg |-> segments[Len(segments)].id,
                            off |-> U32(SegmentHeaderSize)]
       /\ \A k \in Keys : lastOk[k].kind = "put"
                            => GetNow(k) = Found(lastOk[k].value)

\* C7: Put with a valid key and a value of at most MaxValueSize bytes
\* never returns SegmentNotWritable.
C7_NeverNotWritable ==
  (ret.op = "Put" /\ ValidKey(ret.key) /\ Len(ret.value) <= MaxValueSize)
    => ret.err # "ErrSegmentNotWritable"

\* C8: Put returns EmptyKey for an empty key, KeyTooLarge for a key longer
\* than MaxKeySize and ValueTooLarge for a valid key with a value longer
\* than MaxValueSize, and such a call leaves the segment list, the files'
\* bytes and the index unchanged.
IsPutStep == ret'.op = "Put" /\ nops' = nops + 1

C8_Holds ==
  IsPutStep =>
    /\ Len(ret'.key) = 0 => ret'.err = "ErrEmptyKey"
    /\ Len(ret'.key) > MaxKeySize => ret'.err = "ErrKeyTooLarge"
    /\ (ValidKey(ret'.key) /\ Len(ret'.value) > MaxValueSize)
         => ret'.err = "ErrValueTooLarge"
    /\ ret'.err \in {"ErrEmptyKey", "ErrKeyTooLarge", "ErrValueTooLarge"}
         => UNCHANGED <<dir, segments, index>>

C8_Validation == [][C8_Holds]_vars

C8_Witness ==
  /\ ret.op = "Put" /\ ret.err = "ErrValueTooLarge"
  /\ DOMAIN index # {}

\* C9: with goroutines calling Put and Get (no Delete) concurrently, a value
\* that Get(k) returns with a nil error is the value of a Put(k, v) invoked
\* before.
C9_OnlyPutValues ==
  (cret.op = "Get" /\ cret.err = "nil" /\ "Delete" \notin hist)
    => cret.value \in invoked[cret.key]

\* C10: with goroutines calling Put and Get (no Delete), a Get(k) invoked
\* after a Put(k, v) returned nil returns v or the value of a Put of k
\* ordered after it by the lock, never an older value and never KeyNotFound.
C10_RealTimeOrder ==
  (cret.op = "Get" /\ cret.floor > 0 /\ "Delete" \notin hist)
    => /\ cret.err = "nil"
       /\ \E j \in cret.floor..Len(order[cret.key]) :
            order[cret.key][j] = cret.value

\* C11: at most one Put or Delete is between acquiring and releasing the
\* lock, no Get holds it in shared mode meanwhile, and the goroutine that
\* appends and indexes an entry keeps the exclusive lock until after the
\* flush.
C11_Exclusion ==
  /\ Cardinality({g \in Goroutines : pc[g] \in {"set", "flush"}}) <= 1
  /\ \A g \in Goroutines :
       pc[g] \in {"set", "flush"} => (mu.w = g /\ mu.r = {})
  /\ \A g \in Goroutines : pc[g] = "get" => (g \in mu.r /\ mu.w = 0)

C11_Witness ==
  \E g, h \in Goroutines :
    /\ pc[g] = "flush" /\ fsync /\ call[g].err = "nil"
    /\ pc[h] \in {"wlock", "rlock"}

\* C12: a Put or Delete that returns a non-nil error leaves the result of
\* Get unchanged for every key.
IsSetStep ==
  /\ isOpen
  /\ nops' = nops + 1
  /\ ret'.op \in {"Put", "Delete"}

C12_Holds ==
  (IsSetStep /\ ret'.err # "nil")
    => \A k \in Keys : GetNow(k)' = GetNow(k)

C12_ErrorAtomic == [][C12_Holds]_vars

\* C13: every index record (seg, off) names a segment of the list, has
\* 6 <= off < size of that segment, and the bytes of the file at off are the
\* whole header, key and value of the entry that the most recent successful
\* Put or Delete of the key appended.
EntryBytes(e) == e.hdr \o e.key \o e.value

LastEntry(k) ==
  IF lastOk[k].kind = "put"
    THEN createEntry(flagEntryPut, k, lastOk[k].value)
    ELSE createEntry(flagEntryDelete, k, <<>>)

HoldsAt(data, off, bytes) ==
  /\ U32Small(off)
  /\ U32Int(off) + Len(bytes) <= Len(data)
  /\ SubSeq(data, U32Int(off) + 1, U32Int(off) + Len(bytes)) = bytes

C13_IndexRecord ==
  isOpen =>
    \A k \in DOMAIN index :
      /\ lastOk[k].kind # "none"
      /\ \E i \in 1..Len(segments) : segments[i].id = index[k].seg
      /\ \A i \in 1..Len(segments) :
           segments[i].id = index[k].seg =>
             /\ U32Le(U32(SegmentHeaderSize), index[k].off)
             /\ U32Lt(index[k].off, segments[i].size)
             /\ HoldsAt(dir[index[k].seg].data, index[k].off,
                        EntryBytes(LastEntry(k)))

\* C14: after one bit of the non-empty value of a stored Put entry was
\* flipped in the file, Get of that key fails with ChecksumFailed and
\* returns no value.
C14_BitFlip ==
  (ret.op = "Get" /\ isOpen /\ flipped.kind = "value" /\ flipped.n = nops
     /\ ret.key = flipped.key)
    => (ret.err = "ErrChecksumFailed" /\ ret.value = NilBytes)

\* C15: after the value bytes of one stored entry were corrupted, Get of
\* every other key returns what it returned before, on the same handle and
\* after Close and Open; that Open succeeds.
C15_OtherKeys ==
  /\ (flipped.kind = "value" /\ isOpen /\ flipped.n = nops)
       => \A k \in Keys \ {flipped.key} : GetNow(k) = flipped.get[k]
  /\ (flipped.kind = "value" /\ flipped.closed /\ flipped.n = nops
        /\ ret.op = "Open")
       => ret.err = "nil"

\* C16: the slice a successful Get returned keeps its contents after later
\* calls of Put, Delete and Close.
HeldNow ==
  IF held.live
    THEN SubSeq(dir[held.seg].data, held.pos + 1, held.pos + Len(held.value))
    ELSE held.now

C16_Copy == (held # None /\ flipped = None) => HeldNow = held.value

\* C17: when Close has returned nil, the bytes of the active segment (the
\* file of the highest id) are on stable storage and no segment of the
\* handle is mapped.
IsActiveFile(i) ==
  /\ dir[i] # NoFile
  /\ \A j \in SegIds : j > i => dir[j] = NoFile

C17_CloseFlushes ==
  (ret.op = "Close" /\ ret.err = "nil")
    => /\ ~isOpen
       /\ segments = <<>>
       /\ \A i \in SegIds : IsActiveFile(i) => dir[i].stable = dir[i].data

\* C18: at every instant, also after the process stopped between two steps
\* of createSegment, a file under a final segment name has the complete
\* header and the length SegmentSize, in its bytes and in what is known to
\* be on stable storage.
WholeSegment(bytes) ==
  /\ Len(bytes) = SegmentSize
  /\ SubSeq(bytes, 1, SegmentHeaderSize) = MetaBytes

C18_FinalNameWhole ==
  \A i \in SegIds :
    dir[i] # NoFile => (WholeSegment(dir[i].data) /\ WholeSegment(dir[i].stable))

\* C19: when a file taken as a segment has a wrong magic or a version other
\* than 1, Open returns InvalidSegment or InvalidSegmentVersion and no
\* handle, whatever the other segments hold.
C19_BadHeader ==
  (flipped.kind = "header" /\ ret.op = "Open")
    => /\ ret.err \in {"ErrInvalidSegment", "ErrInvalidSegmentVersion"}
       /\ ~isOpen

\* C20: when Open has returned, the directory holds no file with the suffix
\* .initializing.
C20_NoLeftover ==
  (ret.op = "Open" /\ cpc = None) => \A i \in SegIds : tmp[i] = None

\* C21: next to a reference map (a Put that returned nil sets the key, a
\* Delete that returned nil removes it), after Put and Delete calls that all
\* returned nil on one handle, Get(k) returns the map's value of k with a
\* nil error when k is in the map, and an error and no value when it is not.
C21_ReferenceMap ==
  (ret.op = "Get" /\ hist \subseteq {"Delete"})
    => IF lastOk[ret.key].kind = "put"
         THEN ret.err = "nil" /\ ret.value = lastOk[ret.key].value
         ELSE ret.err # "nil" /\ ret.value = NilBytes

\* C22: in every state of an open handle, after Open, any number of
\* rollovers, Close and reopen, the segment list is not empty, the segment
\* at list position i has id i (so the ids increase strictly in creation
\* order and every new segment has a fresh file name), and the active
\* segment, the last of the list, has the highest id.
C22_SegmentIds ==
  isOpen =>
    /\ Len(segments) > 0
    /\ \A i \in 1..Len(segments) : segments[i].id = i - 1
    /\ \A i \in 1..Len(segments) : segments[i].id <= segments[Len(segments)].id

\* C23: for the open segment, after createSegment, after Open and after
\* every WriteEntry call, failed or not: 6 <= size <= SegmentSize, the write
\* cursor of the mapping equals size, and size is 6 plus the sum of the
\* on-disk sizes (10 + key length + value length) of the entries written.
OnDiskSize(e) == hdrSize + Len(e.key) + Len(e.value)

RECURSIVE SumSizes(_)
SumSizes(es) ==
  IF es = <<>> THEN 0 ELSE OnDiskSize(Head(es)) + SumSizes(Tail(es))

C23_SizeCursor ==
  (isOpen /\ ret.op \in {"Create", "Open", "Write"})
    => /\ U32Le(U32(SegmentHeaderSize), segments[1].size)
       /\ U32Le(segments[1].size, U32(SegmentSize))
       /\ segments[1].c = segments[1].size
       /\ segments[1].size = U32(SegmentHeaderSize + SumSizes(written))

\* C24: for a segment that holds entries written by WriteEntry calls that
\* all returned nil, at any fill level from empty to full, Close followed
\* by Open returns nil and sets size to what it was before Close.
C24_SegmentReopen ==
  (ret.op = "Open" /\ prev.how = "reopen" /\ "Failed" \notin hist)
    => /\ ret.err = "nil"
       /\ isOpen
       /\ segments[1].size = prev.size

\* C25: after WriteEntry calls that all returned nil, Close and Open,
\* ForEachEntry returns nil and has called the callback once per written
\* entry, in write order, with the flag, key and value that were written.
RECURSIVE SeenOf(_)
SeenOf(es) ==
  IF es = <<>> THEN <<>>
  ELSE <<Seen(Head(es).hdr, Head(es).key, Head(es).value)>> \o SeenOf(Tail(es))

C25_ForEachAfterReopen ==
  (ret.op = "ForEach" /\ prev.how = "reopen" /\ "Failed" \notin hist)
    => (ret.err = "nil" /\ ret.value = SeenOf(written))

\* C26: a WriteEntry call for which size plus the on-disk size of the entry
\* (10 + key length + value length) exceeds SegmentSize returns
\* SegmentNotWritable and leaves the size, the cursor and the bytes of the
\* segment unchanged, so that a scan finds the same entries as before.
IsSegWrite == ret'.op = "Write" /\ nops' = nops + 1

C26_Holds ==
  (IsSegWrite /\ ret'.nofit)
    => /\ ret'.err = "ErrSegmentNotWritable"
       /\ UNCHANGED <<dir, segments>>
       /\ ForEachEntry(dir[0].data, segments[1].size)'
            = ForEachEntry(dir[0].data, segments[1].size)

C26_NotWritable == [][C26_Holds]_vars

\* C27: a Put or Delete that returns nil changes only bytes of the segment
\* that is active after the call, at offsets from the size this segment had
\* before the call (6 when the call created it) up to its new size; the
\* other bytes of that file and all other segment files are unchanged.
SameOutside(before, after, lo, hi) ==
  /\ Len(after) = Len(before)
  /\ \A j \in 1..Len(before) :
       (j <= U32Int(lo) \/ j > U32Int(hi)) => after[j] = before[j]

C27_Holds ==
  (IsSetStep /\ ret'.err = "nil")
    => /\ \A i \in SegIds :
            i # segments'[Len(segments')].id => dir'[i] = dir[i]
       /\ IF Len(segments') = Len(segments)
            THEN SameOutside(dir[segments[Len(segments)].id].data,
                             dir'[segments[Len(segments)].id].data,
                             segments[Len(segments)].size,
                             segments'[Len(segments)].size)
            ELSE SameOutside(NewSegmentData,
                             dir'[segments'[Len(segments')].id].data,
                             U32(SegmentHeaderSize),
                             segments'[Len(segments')].size)

C27_OnlyActiveTail == [][C27_Holds]_vars

\* C28: whatever hash function the hash option supplied, also one that
\* sends distinct keys to the same hash, a Get(k) that returns a value
\* returns the value of the latest Put of k that returned nil, never bytes
\* stored by a Put of another key (Put and Get calls on one handle).
C28_OwnValue ==
  (ret.op = "Get" /\ ret.err = "nil" /\ "Hash" \in hist
     /\ "Close" \notin hist)
    => /\ lastOk[ret.key].kind = "put"
       /\ ret.value = lastOk[ret.key].value

\* C29: for the flags Put and Delete, a key of 1..MaxKeySize bytes and a
\* value of at most MaxValueSize bytes, the entry that createEntry builds
\* has the key length and the value length in its header, the CRC-32C of
\* the value as checksum and the size 10 + len(key) + len(value), and
\* verify with the same key returns nil.
C29_Fields ==
  written[1].hdr[2] = Len(arg.key)
    /\ getKeySize(written[1].hdr) = Len(arg.key)
    /\ getValueSize(written[1].hdr) = U32(Len(arg.value))
    /\ getChecksum(written[1].hdr) = Crc32c(arg.value)
    /\ entrySize(written[1].hdr) = U32(hdrSize + Len(arg.key) + Len(arg.value))

C29_CreateEntry ==
  (arg.kind = "entry" /\ ret.op \in {"createEntry", "verify"}
     /\ Len(arg.key) \in 1..MaxKeySize /\ Len(arg.value) <= MaxValueSize)
    => /\ C29_Fields
       /\ ret.op = "verify" => ret.err = "nil"

\* C30: the encoding of a header is 10 bytes: the flag, the key size, the
\* value size in 4 bytes and the checksum in 4 bytes, both little-endian;
\* a header decoded from these 10 bytes has the same four fields, and
\* decoding fewer than 10 bytes returns ErrInvalidEntryHeader.
C30_Layout ==
  /\ Len(ret.value) = 10
  /\ ret.value[1] = arg.flag
  /\ ret.value[2] = arg.keySize
  /\ \A i \in 0..1 :
       /\ ret.value[3 + i] = (arg.valueSize[2] \div (256 ^ i)) % 256
       /\ ret.value[5 + i] = (arg.valueSize[1] \div (256 ^ i)) % 256
       /\ ret.value[7 + i] = (arg.checksum[2] \div (256 ^ i)) % 256
       /\ ret.value[9 + i] = (arg.checksum[1] \div (256 ^ i)) % 256

C30_Decoded ==
  IF Len(ret.key) < 10 THEN ret.err = "ErrInvalidEntryHeader"
  ELSE /\ ret.err = "nil"
       /\ getFlag(ret.value) = arg.flag
       /\ getKeySize(ret.value) = arg.keySize
       /\ getValueSize(ret.value) = arg.valueSize
       /\ getChecksum(ret.value) = arg.checksum

C30_HeaderCodec ==
  /\ ret.op = "encode" => C30_Layout
  /\ ret.op = "decode" => C30_Decoded

\* The Insert calls for hash h among calls, in call order.
InsertsOf(calls, h) == SelectSeq(calls, LAMBDA x : x.k = h)

\* What Get(h) returns when the last Insert wins.
LastInsert(calls, h) ==
  IF Len(InsertsOf(calls, h)) = 0 THEN [it |-> NoItem, ok |-> FALSE]
  ELSE [it |-> [id |-> InsertsOf(calls, h)[Len(InsertsOf(calls, h))].id,
                off |-> InsertsOf(calls, h)[Len(InsertsOf(calls, h))].off],
        ok |-> TRUE]

\* C31: on an index that was opened once, Get(h) returns the segment id
\* and offset of the latest Insert for h and not-found for a hash that was
\* never inserted; this holds for every hash after every Insert, so an
\* Insert for h changes what Get returns for no other hash.
C31_LastInsertWins ==
  (hidx # None /\ ilog.opens = 1)
    => /\ \A h \in Hashes :
            IdxGetItem(hidx.buckets, h) = LastInsert(ilog.calls, h)
       /\ ret.op = "index.Get" => ret.value = LastInsert(ilog.calls, ret.key)

\* C31 happens: two Inserts for one hash, an Insert for another hash of the
\* same bucket, and Get returns the pair of the second.
C31_Witness ==
  /\ hidx # None /\ ilog.opens = 1
  /\ ret.op = "index.Get" /\ ret.key = 1 /\ ret.value.ok
  /\ Len(InsertsOf(ilog.calls, 1)) = 2
  /\ Len(InsertsOf(ilog.calls, 3)) = 1
  /\ InsertsOf(ilog.calls, 1)[1] # InsertsOf(ilog.calls, 1)[2]

\* C32: Length() is the number of distinct hashes for which Get succeeds,
\* also after repeated Inserts of the same hash.
C32_Length ==
  (ret.op = "Length" /\ ilog.opens = 1)
    => ret.value
         = Cardinality({h \in Hashes : IdxGetItem(hidx.buckets, h).ok})

\* C33: after Insert calls, Close and openIndex on the same file, Get(h)
\* returns for every inserted hash the pair of its last Insert, also for
\* the Inserts made after the reopen.
C33_Reopen ==
  (hidx # None /\ hidx.open /\ ilog.opens > 1)
    => /\ \A h \in Hashes :
            Len(InsertsOf(ilog.calls, h)) > 0
              => IdxGetItem(hidx.buckets, h) = LastInsert(ilog.calls, h)
       /\ (ret.op = "index.Get" /\ Len(InsertsOf(ilog.calls, ret.key)) > 0)
            => ret.value = LastInsert(ilog.calls, ret.key)

\* C34: when several goroutines call Open on the same path and then Close,
\* every Open and every Close returns nil, under every interleaving of
\* their file-system steps.
C34_ConcurrentOpen == \A g \in Goroutines : oc.g[g].err = "nil"

\* C35: Close excludes the operations in flight: a goroutine inside Get
\* reads the bytes of an entry through the mapping only while the segment
\* is mapped, never after Close has unmapped it.
C35_Holds ==
  \A g \in Goroutines : (pc[g] = "verify" /\ pc'[g] = "idle") => isOpen

C35_CloseExcludes == [][C35_Holds]_vars

\* C36: when Open fails at a step (directory read, opening a segment,
\* creating the first segment), it returns no DB and the error, has closed
\* every segment it had opened, and dereferenced no segment or mapping
\* that was not created.
C36_OpenFails ==
  ret.op = "OpenFault"
    => /\ ret.err # "nil"
       /\ ~isOpen
       /\ ret.value.closed = ret.value.opened
       /\ ~ret.value.deref

\* C37: under fair scheduling every invoked Put, Get and Delete eventually
\* returns, and once it has returned its goroutine holds the database lock
\* neither for writing nor for reading.
C37_Returns ==
  \A g \in Goroutines :
    (pc[g] # "idle") ~> (pc[g] = "idle" /\ mu.w # g /\ g \notin mu.r)

\* A Put or Delete waits for the lock that a Get holds for reading.
C37_Witness ==
  \E g, h \in Goroutines :
    /\ pc[g] = "wwait"
    /\ pc[h] = "get"
    /\ h \in mu.r

\* The name is exactly four lowercase hexadecimal digits.
FourLowerHex(name) ==
  /\ Len(name) = 4
  /\ \A i \in 1..4 : \E j \in 1..16 : LowerDigits[j] = name[i]

\* The number that four lowercase hexadecimal digits spell.
ValueOfName(name) ==
  4096 * DigitVal(name[1]) + 256 * DigitVal(name[2])
    + 16 * DigitVal(name[3]) + DigitVal(name[4])

SegmentsNamed(segs, name) == {j \in 1..Len(segs) : segs[j].name = name}

\* C38: Open treats a directory entry as a segment exactly when its name
\* is four lowercase hexadecimal digits, and then the segment id is the
\* number the name spells; every other name is ignored.
C38_FourHexDigits ==
  ret.op = "OpenNames"
    => \A i \in arg.set :
         /\ SegmentsNamed(ret.value, NameList[i]) # {}
              <=> FourLowerHex(NameList[i])
         /\ \A j \in SegmentsNamed(ret.value, NameList[i]) :
              ret.value[j].id = ValueOfName(NameList[i])

\* C39: after Close on a mapped file every Read, ReadAt, ReadOff, Write
\* and WriteAt returns the Closed error and leaves the handle as it was; a
\* second Close returns nil.
C39_Step ==
  (fh # None /\ fh' # None /\ fh.isnil)
    => /\ fh' = fh
       /\ ret'.op \in {"Read", "ReadAt", "ReadOff", "Write", "WriteAt"}
            => (ret'.err = "mmap.ErrClosed" /\ ret'.value \in {<<>>, <<0>>})
       /\ ret'.op = "Close again" => ret'.err = "nil"

C39_AfterClose == [][C39_Step]_vars

\* C40: on the buffered mapped file a Write that returns nil raises Size()
\* by the length written, and a ReadAt of a range inside [0, Size())
\* returns the bytes written last at those positions, on the handle that
\* wrote them and on the one that opened the file again after Close.
C40_Step ==
  (mf # None /\ mf' # None)
    => /\ (ret'.op = "mf.Write" /\ ret'.err = "nil")
            => mf'.size = mf.size + Len(ret'.key)
       /\ (ret'.op = "mf.ReadAt" /\ ~mf.isnil
             /\ ret'.key[1] + ret'.key[2] <= mf.size)
            => /\ ret'.err = "nil"
               /\ ret'.value = SubSeq(mf.all, ret'.key[1] + 1,
                                      ret'.key[1] + ret'.key[2])

C40_BufferedFile == [][C40_Step]_vars

====
